---- MODULE Spec2Model ----
(***************************************************************************)
(* Verification model of the strongSwan management front end.              *)
(*                                                                         *)
(*  - Status reconciler: static/views/tunnelDetail.js (renderTunnelDetail, *)
(*    startStatusPolling, updateStatusUI) with the router that mounts it.  *)
(*  - Proposal codec: static/views/utils.js (buildProposal, parseProposal) *)
(*    and the encoders of the forms that submit a proposal string.         *)
(*                                                                         *)
(* The browser runs one handler at a time; every await is a suspension     *)
(* point, so each action below is one handler run between two awaits.      *)
(***************************************************************************)
EXTENDS Integers, Sequences, FiniteSets, TLC

\* ------------------------------------------------------------------------
\* Bounds of the model
\* ------------------------------------------------------------------------
\* renderTunnelDetail calls between two page loads
MaxMounts == 2
\* periodic status requests between two page loads
MaxReq == 2

\* ------------------------------------------------------------------------
\* Values exchanged with the backend
\* ------------------------------------------------------------------------
NoValue == "<absent>"

RecordStatus == {"established", "connecting", "disconnected"}

IkeStates == {"ESTABLISHED", "CONNECTING", "DOWN", NoValue}

LiveRec(n, s) == [name |-> n, state |-> s]

\* Live child_sas lists: both children installed; the enabled child in
\* another state, next to a record that no configured child is named after.
LiveLists ==
    { {LiveRec("c1", "INSTALLED"), LiveRec("c2", "INSTALLED")},
      {LiveRec("c1", "REKEYING"), LiveRec("c1-1", "INSTALLED")} }

\* A status snapshot: ike_state may be absent, child_sas may be absent.
Snapshots ==
    { [ike_state |-> i, has_child_sas |-> TRUE, child_sas |-> l] :
          i \in IkeStates, l \in LiveLists }
    \cup
    { [ike_state |-> i, has_child_sas |-> FALSE, child_sas |-> {}] :
          i \in IkeStates }

NoSnap == [ike_state |-> NoValue, has_child_sas |-> FALSE, child_sas |-> {}]

Child(n, e) == [name |-> n, enabled |-> e]

\* Child SA lists the backend may hold for a tunnel: an enabled and a
\* disabled child.
ChildConfigs ==
    { << Child("c1", TRUE), Child("c2", FALSE) >> }

\* ------------------------------------------------------------------------
\* State
\* ------------------------------------------------------------------------
VARIABLES
    route,          \* location hash: "list" or "detail" (#strongswan/{id})
    permManage,     \* checkPermission('ipsec.manage') of the session
    tunnel,         \* module-level `tunnel`
    children,       \* module-level `children`
    canManage,      \* module-level `canManage`
    clicks,         \* Start/Stop click handlers waiting for their POST
    held,           \* backend state held fixed over page reloads, if any
    statusInterval, \* module-level `statusInterval` (0 = null)
    timers,         \* interval timers that are running (named by mount)
    mounts,         \* renderTunnelDetail calls of this page, in call order
    cur,            \* the mount whose view the route shows (0 = none)
    inflight,       \* status requests that have not been answered
    nextSeq,        \* issue number of the next periodic status request
    dom,            \* what the container shows
    reloading,      \* location.reload() was called by the last handler
    lastApplied,    \* issue number of the last applied periodic snapshot
    ev,             \* what the last handler run was
    form,           \* proposal fields of the form being saved
    encoder,        \* the save handler that encoded the proposal
    wire,           \* the proposal string that was submitted
    parsed,         \* result of parseProposal on the submitted string
    cpc,            \* codec cycle: "idle", "encoded" or "parsed"
    fwModule,       \* the copy of the firewall module the page loaded
    srvRules,       \* backend: firewall rules of the Child SA
    srvPolicy,      \* backend: default policy of the Child SA per direction
    currentChildren,\* module-level `currentChildren`: the cached child record
    shownRows,      \* rule ids of the rows on display, per direction table
    shownPolicy,    \* value each policy control on display shows
    fwView,         \* firewall container: "spinner", "loaded" or "error"
    fwReqs,         \* firewall requests that have not been answered
    fwOps,          \* firewall operations the user has started
    fwEv,           \* what the last firewall handler run was
    sform,          \* the tunnel or Child SA form that is open, as filled in
    ssent,          \* the request the save handler of the form has sent
    spc             \* form cycle: "idle", "open" or "done"

statusVars == << route, permManage, tunnel, children, canManage, clicks, held,
                 statusInterval, timers, mounts, cur, inflight, nextSeq, dom,
                 reloading, lastApplied, ev >>

codecVars == << form, encoder, wire, parsed, cpc >>

fwVars == << fwModule, srvRules, srvPolicy, currentChildren, shownRows,
             shownPolicy, fwView, fwReqs, fwOps, fwEv >>

saveVars == << sform, ssent, spc >>

vars == << statusVars, codecVars, fwVars, saveVars >>

\* `let tunnel = null`: id 0 stands for no tunnel
NoTunnel == [id |-> 0, status |-> NoValue]

NoDots == [n \in {} |-> ""]

BlankDom == [view |-> "blank", btn |-> "none", badge |-> "none",
             dots |-> NoDots]

Event(k, m, i, s) ==
    [kind |-> k, mount |-> m, initial |-> i, snap |-> s]

NoEvent(k, m) == Event(k, m, FALSE, NoSnap)

\* variant of the mapping that takes only 'DOWN' for disconnected
StatusOfOnlyDown(ike) ==
    IF ike = "ESTABLISHED" THEN "established"
    ELSE IF ike = "DOWN" THEN "disconnected"
    ELSE "connecting"

\* ------------------------------------------------------------------------
\* Pure helpers of tunnelDetail.js
\* ------------------------------------------------------------------------
StatusOf(ike) ==
    IF ike = "ESTABLISHED" THEN "established"
    ELSE IF ike = "CONNECTING" THEN "connecting"
    ELSE "disconnected"

PollState(ike) ==
    IF ike = "ESTABLISHED" THEN "established"
    ELSE IF ike = "CONNECTING" THEN "connecting"
    ELSE "disconnected"

BadgeOf(st) ==
    IF st = "established" THEN "UP"
    ELSE IF st = "connecting" THEN "CONNECTING"
    ELSE "DOWN"

ButtonOf(manage, st) ==
    IF ~manage THEN "none"
    ELSE IF st = "established" \/ st = "connecting" THEN "stop"
    ELSE "start"

Names(cs) == { cs[i].name : i \in 1..Len(cs) }

FirstNamed(cs, n) ==
    cs[CHOOSE i \in 1..Len(cs) :
           cs[i].name = n /\ \A j \in 1..(i - 1) : cs[j].name # n]

\* renderPhase2Table: one dot per child, with its initial title.
InitialDots(cs) ==
    [n \in Names(cs) |->
        IF FirstNamed(cs, n).enabled THEN "Verifica in corso..."
        ELSE "Disabilitato"]

\* renderDetail: header badge, Start/Stop button and the child table.
RenderDetail(t, cs, manage) ==
    [view |-> "detail",
     btn |-> ButtonOf(manage, t.status),
     badge |-> BadgeOf(t.status),
     dots |-> InitialDots(cs)]

\* the set of child names the snapshot reports as INSTALLED
ActiveChildren(snap) ==
    { r.name : r \in { x \in snap.child_sas : x.state = "INSTALLED" } }

\* title of one child's dot after the forEach of updateStatusUI
DotTitle(c, newState, active) ==
    IF newState # "established"
    THEN (IF c.enabled THEN "Waiting for Tunnel" ELSE "Disabled")
    ELSE IF c.name \in active THEN "UP (Installed)"
    ELSE IF c.enabled THEN "Negotiating / Failed"
    ELSE "Disabled"

UpdateDots(d, cs, snap, newState) ==
    IF ~snap.has_child_sas THEN d
    ELSE [n \in DOMAIN d |->
            IF n \in Names(cs)
            THEN DotTitle(FirstNamed(cs, n), newState, ActiveChildren(snap))
            ELSE d[n]]

\* updateStatusUI(status) run on module state (t, cs, manage) and DOM d.
\* Result: the tunnel object, the DOM, and whether location.reload() ran.
UpdateStatusUI(t, cs, manage, d, snap) ==
    LET newState == StatusOf(snap.ike_state)
        t1 == [t EXCEPT !.status = newState]
        d1 == IF d.view = "detail"
              THEN [d EXCEPT !.badge = BadgeOf(newState)]
              ELSE d
        btnContainer == d.view = "detail" /\ d.btn # "none"
    IN  IF btnContainer /\ manage
           /\ (newState = "established" \/ newState = "connecting")
           /\ d.btn = "start"
        THEN [tunnel |-> t1, dom |-> [d1 EXCEPT !.btn = "stop"],
              reload |-> TRUE]
        ELSE IF btnContainer /\ manage
                /\ newState = "disconnected" /\ d.btn = "stop"
        THEN [tunnel |-> t1, dom |-> d1, reload |-> TRUE]
        ELSE [tunnel |-> t1,
              dom |-> [d1 EXCEPT !.dots = UpdateDots(d1.dots, cs, snap, newState)],
              reload |-> FALSE]

NoForm ==
    [kind |-> "none", version |-> "2", pairs |-> << >>, dhGroups |-> << >>]

NoParse == [enc |-> << >>, integ |-> << >>, dh |-> << >>, pairs |-> << >>]

\* ------------------------------------------------------------------------
\* Firewall of one Child SA: backend, rule tables, policy controls
\* ------------------------------------------------------------------------
\* rules the Child SA can have
MaxRules == 4
\* firewall operations the user starts in one visit of the page
MaxFwOps == 3

FwModules == {"part_000", "childSaForm", "firewallManagement"}

Policies == {"ACCEPT", "DROP"}

Directions == {"in", "out"}

RuleIds == 1..MaxRules

\* direction of the rule the user creates under id `id`
DirOf(id) == << "out", "both", "in", "both" >>[((id - 1) % 4) + 1]

Rule(id, o) == [id |-> id, direction |-> DirOf(id), order |-> o]

\* r.direction === d || r.direction === 'both'
InDirection(r, d) == r.direction = d \/ r.direction = "both"

Before(a, b) == a.order < b.order \/ (a.order = b.order /\ a.id < b.id)

RECURSIVE SortRules(_)
SortRules(S) ==
    IF S = {} THEN << >>
    ELSE LET first == CHOOSE a \in S : \A b \in S \ {a} : Before(a, b)
         IN  << first >> \o SortRules(S \ {first})

\* GET .../firewall/rules: the rules in ascending priority
ListRules(rules) == SortRules(rules)

IdsOf(rules, d) ==
    LET l == ListRules(rules)
        F[k \in 0..Len(l)] ==
            IF k = 0 THEN << >>
            ELSE IF InDirection(l[k], d) THEN Append(F[k - 1], l[k].id)
                 ELSE F[k - 1]
    IN  F[Len(l)]

\* GET .../children: the child record as the backend holds it
ChildRecord(policy) ==
    [firewall_policy_in |-> policy["in"],
     firewall_policy_out |-> policy["out"],
     firewall_default_policy |-> NoValue]

\* the policy controls a copy of the module renders
Controls(mod) == IF mod = "firewallManagement" THEN {"default"} ELSE Directions

FieldOf(child, ctl) ==
    CASE ctl = "in" -> child.firewall_policy_in
      [] ctl = "out" -> child.firewall_policy_out
      [] OTHER -> child.firewall_default_policy

\* a checkbox (or the DROP radio) shows DROP unless the field is 'ACCEPT'
RenderPolicy(mod, child) ==
    [ctl \in Controls(mod) |->
        IF FieldOf(child, ctl) \in Policies THEN FieldOf(child, ctl)
        ELSE IF mod = "part_000" THEN NoValue ELSE "DROP"]

NoRows == [d \in Directions |-> << >>]

NoPolicy(mod) == [ctl \in Controls(mod) |-> NoValue]

Opposite(v) == IF v = "ACCEPT" THEN "DROP" ELSE "ACCEPT"

FwReq(n, kind, cause) ==
    [n |-> n, kind |-> kind, cause |-> cause, dir |-> NoValue,
     val |-> NoValue, prev |-> NoValue, key |-> NoValue, rule |-> 0,
     rows |-> << >>, child |-> ChildRecord([d \in Directions |-> NoValue]),
     fresh |-> FALSE]

FwEvent(kind, cause) == [kind |-> kind, cause |-> cause]

NoFwEvent == FwEvent("other", "none")

\* requests that are equal in every field are told apart by n
Numbered(reqs, q) ==
    [q EXCEPT !.n = CHOOSE n \in 1..(MaxFwOps + 1) :
                        /\ [q EXCEPT !.n = n] \notin reqs
                        /\ \A k \in 1..(n - 1) : [q EXCEPT !.n = k] \in reqs]

Send(reqs, q) == reqs \cup {Numbered(reqs, q)}

Replace(r, q) == Send(fwReqs \ {r}, q)

UserCanAct == fwView = "loaded" /\ fwOps < MaxFwOps

\* loadChildFirewall(tunnelId, child) up to its await
loadChildFirewall(child, cause) ==
    [FwReq(1, "rules", cause) EXCEPT !.child = child]

\* what a handler does once its mutation is over and the tables are due again
reloadAfter(cause) ==
    IF fwModule = "part_000"
    THEN FwReq(1, "children", cause)
    ELSE loadChildFirewall(currentChildren, cause)

InitFw ==
    /\ fwModule = NoValue
    /\ srvRules = {Rule(1, 0), Rule(2, 1), Rule(3, 2)}
    /\ srvPolicy = [d \in Directions |-> IF d = "in" THEN "DROP" ELSE "ACCEPT"]
    /\ currentChildren = ChildRecord([d \in Directions |-> NoValue])
    /\ shownRows = NoRows
    /\ shownPolicy = NoPolicy(NoValue)
    /\ fwView = "none"
    /\ fwReqs = {}
    /\ fwOps = 0
    /\ fwEv = NoFwEvent

\* ------------------------------------------------------------------------
\* Tunnel and Child SA forms: fields and requests
\* ------------------------------------------------------------------------
NoSaveForm ==
    [kind |-> "none", isEdit |-> FALSE, prefill |-> "", typed |-> NoValue,
     name |-> << >>, local_ts |-> << >>, remote_ts |-> << >>,
     remote_address |-> << >>]

NoReq ==
    [op |-> "none", name |-> << >>, local_ts |-> << >>, remote_ts |-> << >>,
     remote_address |-> << >>, hasPsk |-> FALSE, psk |-> ""]

InitSave ==
    /\ sform = NoSaveForm
    /\ ssent = NoReq
    /\ spc = "idle"

\* ------------------------------------------------------------------------
\* Router and renderTunnelDetail
\* ------------------------------------------------------------------------
\* A tunnel id is named by the number of the navigation that opened it:
\* the code never compares ids, it only puts them into request paths.
Mount(tid, p) == [tid |-> tid, pc |-> p]

\* the backend answers freely: any tunnel record, any status snapshot
FreeBackend ==
    [fixed |-> FALSE, status |-> NoValue, snap |-> NoSnap, reloads |-> 0]

\* the backend answers every GET /tunnels/{id} with the same status field
\* and every GET /tunnels/{id}/status with the same snapshot
FixedBackends ==
    { [fixed |-> TRUE, status |-> st, snap |-> snap, reloads |-> 0] :
          st \in RecordStatus, snap \in Snapshots }

InitProgram ==
    /\ route = "list"
    /\ permManage \in BOOLEAN
    /\ tunnel = NoTunnel
    /\ children = << >>
    /\ canManage = FALSE
    /\ clicks = {}
    /\ statusInterval = 0
    /\ timers = {}
    /\ mounts = << >>
    /\ cur = 0
    /\ inflight = {}
    /\ nextSeq = 1
    /\ dom = [BlankDom EXCEPT !.view = "list"]
    /\ reloading = FALSE
    /\ lastApplied = 0
    /\ ev = NoEvent("other", 0)
    /\ form = NoForm
    /\ encoder = "none"
    /\ wire = << >>
    /\ parsed = NoParse
    /\ cpc = "idle"
    /\ InitFw
    /\ InitSave

Init == InitProgram /\ held = FreeBackend

InitFixedBackend == InitProgram /\ held \in FixedBackends

\* render(container, [tid]) -> renderTunnelDetail up to its first await
Navigate ==
    /\ ~reloading
    /\ Len(mounts) < MaxMounts
    /\ route' = "detail"
    /\ timers' = timers \ {statusInterval}
    /\ canManage' = permManage
    /\ dom' = [BlankDom EXCEPT !.view = "spinner"]
    /\ mounts' = Append(mounts, Mount(Len(mounts) + 1, "getTunnel"))
    /\ cur' = Len(mounts) + 1
    /\ ev' = NoEvent("other", 0)
    /\ UNCHANGED clicks
    /\ UNCHANGED held
    /\ UNCHANGED << codecVars, fwVars, saveVars >>
    /\ UNCHANGED << permManage, tunnel, children, statusInterval, inflight,
                    nextSeq, reloading, lastApplied >>

\* render(container, []) -> renderTunnelList: the list replaces the container
NavigateList ==
    /\ ~reloading
    /\ route # "list"
    /\ route' = "list"
    /\ dom' = [BlankDom EXCEPT !.view = "list"]
    /\ cur' = 0
    /\ ev' = NoEvent("other", 0)
    /\ UNCHANGED clicks
    /\ UNCHANGED held
    /\ UNCHANGED << codecVars, fwVars, saveVars >>
    /\ UNCHANGED << permManage, tunnel, children, canManage, statusInterval,
                    timers, mounts, inflight, nextSeq, reloading, lastApplied >>

\* tunnel = await apiGet(/tunnels/{id}) resolved
TunnelLoaded(m, st) ==
    /\ ~reloading
    /\ m \in 1..Len(mounts)
    /\ mounts[m].pc = "getTunnel"
    /\ held.fixed => st = held.status
    /\ tunnel' = [id |-> mounts[m].tid, status |-> st]
    /\ mounts' = [mounts EXCEPT ![m].pc = "getChildren"]
    /\ ev' = NoEvent("other", 0)
    /\ UNCHANGED clicks
    /\ UNCHANGED held
    /\ UNCHANGED << codecVars, fwVars, saveVars >>
    /\ UNCHANGED << route, permManage, children, canManage, statusInterval,
                    timers, cur, inflight, nextSeq, dom, reloading,
                    lastApplied >>

\* either apiGet of renderTunnelDetail rejected: the catch shows the alert
LoadFailed(m) ==
    /\ ~reloading
    /\ m \in 1..Len(mounts)
    /\ mounts[m].pc \in {"getTunnel", "getChildren"}
    /\ dom' = [BlankDom EXCEPT !.view = "error"]
    /\ mounts' = [mounts EXCEPT ![m].pc = "done"]
    /\ ev' = NoEvent("other", 0)
    /\ UNCHANGED clicks
    /\ UNCHANGED held
    /\ UNCHANGED << codecVars, fwVars, saveVars >>
    /\ UNCHANGED << route, permManage, tunnel, children, canManage,
                    statusInterval, timers, cur, inflight, nextSeq,
                    reloading, lastApplied >>

\* children = await apiGet(.../children) resolved; renderDetail;
\* startStatusPolling up to its first await (the immediate status fetch)
ChildrenLoaded(m, cs) ==
    /\ ~reloading
    /\ m \in 1..Len(mounts)
    /\ mounts[m].pc = "getChildren"
    /\ children' = cs
    /\ dom' = RenderDetail(tunnel, cs, canManage)
    /\ inflight' = inflight \cup {[mount |-> m, seq |-> 0, initial |-> TRUE]}
    /\ mounts' = [mounts EXCEPT ![m].pc = "initStatus"]
    /\ ev' = NoEvent("other", 0)
    /\ UNCHANGED clicks
    /\ UNCHANGED held
    /\ UNCHANGED << codecVars, fwVars, saveVars >>
    /\ UNCHANGED << route, permManage, tunnel, canManage, statusInterval,
                    timers, cur, nextSeq, reloading, lastApplied >>

\* ------------------------------------------------------------------------
\* startStatusPolling
\* ------------------------------------------------------------------------
InitReq(m) == { r \in inflight : r.mount = m /\ r.initial }

PollReq(m) == { r \in inflight : r.mount = m /\ ~r.initial }

\* the immediate status fetch resolved: updateStatusUI, then setInterval
InitStatusOk(r, snap) ==
    /\ ~reloading
    /\ r \in inflight /\ r.initial
    /\ held.fixed => snap = held.snap
    /\ LET u == UpdateStatusUI(tunnel, children, canManage, dom, snap)
       IN  /\ tunnel' = u.tunnel
           /\ dom' = u.dom
           /\ reloading' = u.reload
    /\ inflight' = inflight \ {r}
    /\ statusInterval' = r.mount
    /\ timers' = timers \cup {r.mount}
    /\ mounts' = [mounts EXCEPT ![r.mount].pc = "done"]
    /\ ev' = Event("ok", r.mount, TRUE, snap)
    /\ UNCHANGED clicks
    /\ UNCHANGED held
    /\ UNCHANGED << codecVars, fwVars, saveVars >>
    /\ UNCHANGED << route, permManage, children, canManage, cur, nextSeq,
                    lastApplied >>

\* the immediate status fetch rejected: logged, then setInterval
InitStatusFail(r) ==
    /\ ~reloading
    /\ r \in inflight /\ r.initial
    /\ inflight' = inflight \ {r}
    /\ statusInterval' = r.mount
    /\ timers' = timers \cup {r.mount}
    /\ mounts' = [mounts EXCEPT ![r.mount].pc = "done"]
    /\ ev' = Event("fail", r.mount, TRUE, NoSnap)
    /\ UNCHANGED clicks
    /\ UNCHANGED held
    /\ UNCHANGED << codecVars, fwVars, saveVars >>
    /\ UNCHANGED << route, permManage, tunnel, children, canManage, cur,
                    nextSeq, dom, reloading, lastApplied >>

\* #btn-stop or #btn-start is in the document
HasMarker(d) == d.view = "detail" /\ d.btn # "none"

\* the interval callback of mount m fires, up to its await
Tick(m) ==
    /\ ~reloading
    /\ m \in timers
    /\ IF ~HasMarker(dom)
       THEN /\ timers' = timers \ {statusInterval}
            /\ UNCHANGED << inflight, nextSeq >>
       ELSE /\ nextSeq <= MaxReq
            /\ inflight' = inflight \cup
                             {[mount |-> m, seq |-> nextSeq, initial |-> FALSE]}
            /\ nextSeq' = nextSeq + 1
            /\ UNCHANGED timers
    /\ ev' = NoEvent("tick", m)
    /\ UNCHANGED clicks
    /\ UNCHANGED held
    /\ UNCHANGED << codecVars, fwVars, saveVars >>
    /\ UNCHANGED << route, permManage, tunnel, children, canManage,
                    statusInterval, mounts, cur, dom, reloading, lastApplied >>

\* a periodic status fetch resolved: the rest of the interval callback
PollOk(r, snap) ==
    /\ ~reloading
    /\ r \in inflight /\ ~r.initial
    /\ held.fixed => snap = held.snap
    /\ LET newState == PollState(snap.ike_state)
           changed == tunnel.status # newState
           t0 == IF changed THEN [tunnel EXCEPT !.status = newState]
                 ELSE tunnel
           u == UpdateStatusUI(t0, children, canManage, dom, snap)
       IN  /\ tunnel' = u.tunnel
           /\ dom' = u.dom
           /\ reloading' = (changed \/ u.reload)
    /\ inflight' = inflight \ {r}
    /\ lastApplied' = r.seq
    /\ ev' = Event("ok", r.mount, FALSE, snap)
    /\ UNCHANGED clicks
    /\ UNCHANGED held
    /\ UNCHANGED << codecVars, fwVars, saveVars >>
    /\ UNCHANGED << route, permManage, children, canManage, statusInterval,
                    timers, mounts, cur, nextSeq >>

\* a periodic status fetch rejected: logged
PollFail(r) ==
    /\ ~reloading
    /\ r \in inflight /\ ~r.initial
    /\ inflight' = inflight \ {r}
    /\ ev' = Event("fail", r.mount, FALSE, NoSnap)
    /\ UNCHANGED clicks
    /\ UNCHANGED held
    /\ UNCHANGED << codecVars, fwVars, saveVars >>
    /\ UNCHANGED << route, permManage, tunnel, children, canManage,
                    statusInterval, timers, mounts, cur, nextSeq, dom,
                    reloading, lastApplied >>

\* location.reload() takes effect: the document and all module state are
\* discarded, timers and pending callbacks with them, and the router
\* renders the route again.
PageLoad ==
    /\ reloading
    /\ reloading' = FALSE
    /\ tunnel' = NoTunnel
    /\ children' = << >>
    /\ statusInterval' = 0
    /\ timers' = {}
    /\ inflight' = {}
    /\ nextSeq' = 1
    /\ IF route = "list"
       THEN /\ canManage' = FALSE
            /\ dom' = [BlankDom EXCEPT !.view = "list"]
            /\ mounts' = << >>
            /\ cur' = 0
       ELSE /\ canManage' = permManage
            /\ dom' = [BlankDom EXCEPT !.view = "spinner"]
            /\ mounts' = << Mount(1, "getTunnel") >>
            /\ cur' = 1
    /\ lastApplied' = 0
    /\ ev' = NoEvent("other", 0)
    /\ clicks' = {}
    /\ held' = IF held.fixed THEN [held EXCEPT !.reloads = 1] ELSE held
    /\ UNCHANGED << codecVars, fwVars, saveVars >>
    /\ UNCHANGED << route, permManage >>

\* click on #btn-start / #btn-stop: the button is disabled and the POST
\* .../start or .../stop is sent (the handler up to its await)
StartStopClick(k) ==
    /\ ~reloading
    /\ dom.view = "detail" /\ dom.btn = k
    /\ k \notin clicks
    /\ clicks' = clicks \cup {k}
    /\ ev' = NoEvent("click", 0)
    /\ UNCHANGED held
    /\ UNCHANGED << codecVars, fwVars, saveVars >>
    /\ UNCHANGED << route, permManage, tunnel, children, canManage,
                    statusInterval, timers, mounts, cur, inflight, nextSeq,
                    dom, reloading, lastApplied >>

\* the POST resolved: toast, tunnel.status = 'connecting' (Start) or
\* 'disconnected' (Stop), location.reload()
StartStopOk(k) ==
    /\ ~reloading
    /\ k \in clicks
    /\ clicks' = clicks \ {k}
    /\ tunnel' = [tunnel EXCEPT
                    !.status = IF k = "start" THEN "connecting"
                               ELSE "disconnected"]
    /\ reloading' = TRUE
    /\ ev' = NoEvent("control", 0)
    /\ UNCHANGED held
    /\ UNCHANGED << codecVars, fwVars, saveVars >>
    /\ UNCHANGED << route, permManage, children, canManage, statusInterval,
                    timers, mounts, cur, inflight, nextSeq, dom, lastApplied >>

\* the POST rejected: error toast, the button is enabled again
StartStopFail(k) ==
    /\ ~reloading
    /\ k \in clicks
    /\ clicks' = clicks \ {k}
    /\ ev' = NoEvent("other", 0)
    /\ UNCHANGED held
    /\ UNCHANGED << codecVars, fwVars, saveVars >>
    /\ UNCHANGED << route, permManage, tunnel, children, canManage,
                    statusInterval, timers, mounts, cur, inflight, nextSeq,
                    dom, reloading, lastApplied >>

Next ==
    \/ Navigate
    \/ NavigateList
    \/ \E m \in 1..MaxMounts, st \in RecordStatus : TunnelLoaded(m, st)
    \/ \E m \in 1..MaxMounts : LoadFailed(m)
    \/ \E m \in 1..MaxMounts, cs \in ChildConfigs : ChildrenLoaded(m, cs)
    \/ \E r \in inflight, snap \in Snapshots : InitStatusOk(r, snap)
    \/ \E r \in inflight : InitStatusFail(r)
    \/ \E m \in 1..MaxMounts : Tick(m)
    \/ \E r \in inflight, snap \in Snapshots : PollOk(r, snap)
    \/ \E r \in inflight : PollFail(r)
    \/ \E k \in {"start", "stop"} : StartStopClick(k)
    \/ \E k \in {"start", "stop"} : StartStopOk(k)
    \/ \E k \in {"start", "stop"} : StartStopFail(k)
    \/ PageLoad

Spec == Init /\ [][Next]_vars

\* the view left to itself on a backend whose state does not change: the
\* user navigates but clicks neither Start nor Stop
NextFixedBackend ==
    \/ Navigate
    \/ NavigateList
    \/ \E m \in 1..MaxMounts, st \in RecordStatus : TunnelLoaded(m, st)
    \/ \E m \in 1..MaxMounts : LoadFailed(m)
    \/ \E m \in 1..MaxMounts, cs \in ChildConfigs : ChildrenLoaded(m, cs)
    \/ \E r \in inflight, snap \in Snapshots : InitStatusOk(r, snap)
    \/ \E r \in inflight : InitStatusFail(r)
    \/ \E m \in 1..MaxMounts : Tick(m)
    \/ \E r \in inflight, snap \in Snapshots : PollOk(r, snap)
    \/ \E r \in inflight : PollFail(r)
    \/ PageLoad

SpecFixedBackend == InitFixedBackend /\ [][NextFixedBackend]_vars

\* ------------------------------------------------------------------------
\* Proposal codec (utils.js) and the save handlers that encode proposals
\* ------------------------------------------------------------------------
\* proposal pairs in the Phase 1 form being saved
MaxPairs == 2
\* DH group checkboxes ticked in the Phase 1 form being saved
MaxDh == 2
\* atoms (tokens and separators) of a stored proposal string
MaxStored == 3

Opt(v, a) == [value |-> v, aead |-> a]

\* CRYPTO_OPTIONS.encryption.common
EncCommon ==
    << Opt("aes256", FALSE), Opt("aes128", FALSE), Opt("3des", FALSE) >>

\* CRYPTO_OPTIONS.encryption.ikev2Only
EncIkev2Only ==
    << Opt("aes256gcm16", TRUE), Opt("aes128gcm16", TRUE),
       Opt("chacha20poly1305", TRUE) >>

\* CRYPTO_OPTIONS.integrity.common (value column)
IntegCommon == << "sha256", "sha384", "sha512", "sha1" >>

\* CRYPTO_OPTIONS.dhGroups.ikev1 (value column)
DhIkev1 ==
    << "modp768", "modp1024", "modp1536", "modp2048", "modp3072",
       "modp4096", "modp6144", "modp8192" >>

\* CRYPTO_OPTIONS.dhGroups.ikev2 (value column)
DhIkev2 ==
    << "modp2048", "modp3072", "modp4096", "modp6144", "modp8192",
       "ecp256", "ecp384", "ecp521", "curve25519" >>

\* CRYPTO_OPTIONS.pfsGroups (value column)
PfsGroups ==
    << "modp1024", "modp1536", "modp2048", "modp3072", "modp4096",
       "ecp256", "ecp384" >>

Range(q) == { q[i] : i \in 1..Len(q) }

ValuesOf(opts) == [i \in 1..Len(opts) |-> opts[i].value]

\* getEncryptionOptions(ikeVersion): ikev2Only is put in front for version 2
getEncryptionOptions(ikeVersion) ==
    IF ikeVersion = "2" THEN EncIkev2Only \o EncCommon ELSE EncCommon

\* getDhGroups(ikeVersion)
getDhGroups(ikeVersion) ==
    IF ikeVersion = "1" THEN DhIkev1 ELSE DhIkev2

\* A string is a sequence of atoms: algorithm tokens and the separators
\* "-", "," and " ".  `${x}` of the empty string contributes no atom.
Str(tok) == IF tok = "" THEN << >> ELSE << tok >>

\* Array.prototype.join
RECURSIVE Join(_, _)
Join(strs, sep) ==
    IF strs = << >> THEN << >>
    ELSE IF Len(strs) = 1 THEN strs[1]
    ELSE strs[1] \o << sep >> \o Join(Tail(strs), sep)

\* buildProposal(enc, integ, dhGroup)
buildProposal(enc, integ, dhGroup) ==
    LET isAead == \E i \in 1..Len(EncIkev2Only) :
                      EncIkev2Only[i].value = enc /\ EncIkev2Only[i].aead
    IN  IF isAead
        THEN Str(enc) \o << "-" >> \o Str(dhGroup)
        ELSE Str(enc) \o << "-" >> \o Str(integ) \o << "-" >> \o Str(dhGroup)

\* String.prototype.split(sep): the pieces between the separators
RECURSIVE SplitFrom(_, _, _)
SplitFrom(str, sep, piece) ==
    IF str = << >> THEN << piece >>
    ELSE IF Head(str) = sep
         THEN << piece >> \o SplitFrom(Tail(str), sep, << >>)
         ELSE SplitFrom(Tail(str), sep, Append(piece, Head(str)))

Split(str, sep) == SplitFrom(str, sep, << >>)

\* String.prototype.trim
RECURSIVE TrimLeft(_)
TrimLeft(str) ==
    IF str # << >> /\ Head(str) = " " THEN TrimLeft(Tail(str)) ELSE str

RECURSIVE TrimRight(_)
TrimRight(str) ==
    IF str # << >> /\ str[Len(str)] = " "
    THEN TrimRight(SubSeq(str, 1, Len(str) - 1))
    ELSE str

Trim(str) == TrimRight(TrimLeft(str))

\* .filter(p => p): the non-empty strings
NonEmpty(strs) == SelectSeq(strs, LAMBDA x : x # << >>)

\* Set.prototype.add with Array.from: insertion order, no duplicates
SetAdd(q, x) == IF x \in Range(q) THEN q ELSE Append(q, x)

\* allEnc, allInteg, allDh of parseProposal
AllEnc == ValuesOf(EncCommon \o EncIkev2Only)

AllInteg == IntegCommon

\* variant of allDh that leaves out the IKEv1 table
AllDhIkev2 == DhIkev2

AllDh == DhIkev1 \o DhIkev2

\* the parts.forEach callback of parseProposal: one '-'-separated part
ClassifyPart(acc, part) ==
    LET p == IF Len(part) = 1 THEN part[1] ELSE NoValue
        asEnc == [acc EXCEPT !.encSet = SetAdd(@, p),
                             !.pairEnc = IF @ = NoValue THEN p ELSE @]
        asInteg == [acc EXCEPT !.integSet = SetAdd(@, p),
                               !.pairInteg = IF @ = NoValue THEN p ELSE @]
    IN  IF p = NoValue THEN acc
        ELSE IF p \in Range(AllEnc) THEN asEnc
        ELSE IF p \in Range(AllInteg) THEN asInteg
        ELSE IF p \in Range(AllDh) THEN [acc EXCEPT !.dhSet = SetAdd(@, p)]
        ELSE IF p \in {"aes256", "aes128", "3des"} THEN asEnc
        ELSE IF p \in {"sha256", "sha1", "md5"} THEN asInteg
        ELSE acc

RECURSIVE ClassifyParts(_, _)
ClassifyParts(acc, parts) ==
    IF parts = << >> THEN acc
    ELSE ClassifyParts(ClassifyPart(acc, Head(parts)), Tail(parts))

\* the proposals.forEach callback of parseProposal: one ','-separated segment
ParseSingle(acc, singleProposal) ==
    LET parts == NonEmpty(Split(singleProposal, "-"))
        a == ClassifyParts([acc EXCEPT !.pairEnc = NoValue,
                                       !.pairInteg = NoValue], parts)
    IN  IF a.pairEnc # NoValue \/ a.pairInteg # NoValue
        THEN [a EXCEPT !.pairs = Append(@,
                 [enc |-> IF a.pairEnc # NoValue THEN a.pairEnc ELSE "aes256",
                  integ |-> IF a.pairInteg # NoValue THEN a.pairInteg
                            ELSE "sha256"])]
        ELSE a

RECURSIVE ParseAll(_, _)
ParseAll(acc, proposals) ==
    IF proposals = << >> THEN acc
    ELSE ParseAll(ParseSingle(acc, Head(proposals)), Tail(proposals))

DefaultParse ==
    [enc |-> << "aes256" >>, integ |-> << "sha256" >>, dh |-> << "modp2048" >>,
     pairs |-> << [enc |-> "aes256", integ |-> "sha256"] >>]

\* parseProposal(proposal)
parseProposal(proposal) ==
    IF proposal = << >> THEN DefaultParse
    ELSE
        LET segs == Split(proposal, ",")
            proposals == NonEmpty([i \in 1..Len(segs) |-> Trim(segs[i])])
            a == ParseAll([encSet |-> << >>, integSet |-> << >>,
                           dhSet |-> << >>, pairs |-> << >>,
                           pairEnc |-> NoValue, pairInteg |-> NoValue],
                          proposals)
        IN  [enc |-> IF a.encSet # << >> THEN a.encSet ELSE << "aes256" >>,
             integ |-> IF a.integSet # << >> THEN a.integSet
                       ELSE << "sha256" >>,
             dh |-> IF a.dhSet # << >> THEN a.dhSet ELSE << "modp2048" >>,
             pairs |-> IF a.pairs # << >> THEN a.pairs
                       ELSE << [enc |-> "aes256", integ |-> "sha256"] >>]

\* ---- the forms and their save handlers ---------------------------------

Pair(e, i) == [enc |-> e, integ |-> i]

Form(k, v, ps, dhs) == [kind |-> k, version |-> v, pairs |-> ps, dhGroups |-> dhs]

\* sequences over S of length lo..hi
SeqsOf(S, lo, hi) == UNION { [1..n -> S] : n \in lo..hi }

\* querySelectorAll(':checked'): the ticked boxes, in the order of the table
CheckedIn(groups, ticked) == SelectSeq(groups, LAMBDA g : g \in ticked)

TickedSets(groups, hi) ==
    { t \in SUBSET Range(groups) : Cardinality(t) <= hi }

\* what a Phase 1 encryption / integrity select can hold for an IKE version
P1Pairs(v) ==
    { Pair(e, i) : e \in Range(ValuesOf(getEncryptionOptions(v))),
                   i \in Range(IntegCommon) }

\* what a Phase 2 pair row can hold (renderProposalPair)
P2Pairs ==
    { Pair(e, i) : e \in Range(ValuesOf(EncCommon)), i \in Range(IntegCommon) }

\* GET /crypto-options: the options the backend offers to IPsecApp's selects
BackendEncryption == Range(AllEnc)

BackendIntegrity == Range(AllInteg)

BackendDhGroups == Range(AllDh)

\* tunnelForm.js saveTunnel: one encryption, integrity and DH select
saveTunnel(v, pair, dh) ==
    /\ cpc = "idle"
    /\ form' = Form("tunnelForm", v, << pair >>, << dh >>)
    /\ encoder' = "saveTunnel"
    /\ wire' = buildProposal(pair.enc, pair.integ, dh)
    /\ parsed' = NoParse
    /\ cpc' = "encoded"
    /\ UNCHANGED << statusVars, fwVars, saveVars >>

\* variant of the fan-out that combines every pair with every DH group
FanOutEveryDh(pairs, dhGroups) ==
    LET all == [k \in 1..(Len(pairs) * Len(dhGroups)) |->
                   buildProposal(pairs[((k - 1) \div Len(dhGroups)) + 1].enc,
                                 pairs[((k - 1) \div Len(dhGroups)) + 1].integ,
                                 dhGroups[((k - 1) % Len(dhGroups)) + 1])]
    IN  all

\* the fan-out of the Phase 1 form with proposal pairs and DH checkboxes
FanOut(pairs, dhGroups) ==
    LET first == [j \in 1..Len(dhGroups) |->
                     buildProposal(pairs[1].enc, pairs[1].integ, dhGroups[j])]
        rest == [i \in 1..(Len(pairs) - 1) |->
                     buildProposal(pairs[i + 1].enc, pairs[i + 1].integ,
                                   dhGroups[1])]
    IN  IF pairs = << >> THEN << >> ELSE first \o rest

\* saveTunnel of the Phase 1 form with proposal pairs
saveTunnelPairs(v, pairs, ticked) ==
    /\ cpc = "idle"
    /\ LET sel == CheckedIn(getDhGroups(v), ticked)
           dhGroups == IF sel = << >> THEN << "modp2048" >> ELSE sel
       IN  /\ form' = Form("phase1Form", v, pairs, sel)
           /\ wire' = Join(FanOut(pairs, dhGroups), ",")
    /\ encoder' = "saveTunnelPairs"
    /\ parsed' = NoParse
    /\ cpc' = "encoded"
    /\ UNCHANGED << statusVars, fwVars, saveVars >>

\* IPsecApp.saveTunnel: FormData fields, null when the select has no option
IPsecApp_saveTunnel(e, i, d) ==
    /\ cpc = "idle"
    /\ LET encryption == IF e = "" THEN "aes256" ELSE e
           integrity == IF i = "" THEN "sha256" ELSE i
           dh == IF d = "" THEN "modp2048" ELSE d
       IN  wire' = Str(encryption) \o << "-" >> \o Str(integrity)
                       \o << "-" >> \o Str(dh)
    /\ form' = Form("IPsecApp", "2", << Pair(e, i) >>, << d >>)
    /\ encoder' = "IPsecApp.saveTunnel"
    /\ parsed' = NoParse
    /\ cpc' = "encoded"
    /\ UNCHANGED << statusVars, fwVars, saveVars >>

\* the ESP proposal of one pair row of the Child SA form
EspOf(pair, pfsGroup) ==
    LET proposal == Str(pair.enc) \o << "-" >> \o Str(pair.integ)
    IN  IF pfsGroup # "" THEN proposal \o << "-" >> \o Str(pfsGroup)
        ELSE proposal

\* the save handler of the Child SA form (.btn-save-phase2)
savePhase2(pairs, pfsGroup) ==
    /\ cpc = "idle"
    /\ form' = Form("childSaForm", "2", pairs, << pfsGroup >>)
    /\ encoder' = "savePhase2"
    /\ wire' = Join([i \in 1..Len(pairs) |-> EspOf(pairs[i], pfsGroup)], ",")
    /\ parsed' = NoParse
    /\ cpc' = "encoded"
    /\ UNCHANGED << statusVars, fwVars, saveVars >>

\* the form is opened again on the saved record: parseProposal of the
\* stored proposal string
showTunnelForm ==
    /\ cpc = "encoded"
    /\ parsed' = parseProposal(wire)
    /\ cpc' = "parsed"
    /\ UNCHANGED << form, encoder, wire >>
    /\ UNCHANGED << statusVars, fwVars, saveVars >>

\* what a tunnel record can hold as ike_proposal: nothing (a new tunnel)
\* or a string of at most MaxStored atoms
StoredAtoms ==
    {"aes128", "sha1", "modp3072", "md5", "garbage", "xyz", "-", ",", " "}

Stored(d, str) == [defined |-> d, text |-> str]

StoredProposals ==
    {Stored(FALSE, << >>)}
        \cup { Stored(TRUE, str) : str \in SeqsOf(StoredAtoms, 0, MaxStored) }

\* parseProposal(tunnel?.ike_proposal): undefined is falsy like ''
parseStored(p) ==
    IF ~p.defined THEN DefaultParse ELSE parseProposal(p.text)

\* showTunnelForm(tunnel, onSave) on a new tunnel or on a stored record
showTunnelFormOn(p) ==
    /\ cpc = "idle"
    /\ form' = NoForm
    /\ encoder' = IF p.defined THEN "stored" ELSE "new"
    /\ wire' = p.text
    /\ parsed' = parseStored(p)
    /\ cpc' = "parsed"
    /\ UNCHANGED << statusVars, fwVars, saveVars >>

\* the form is dismissed without saving
\* edit cycles of one proposal: pairs the edit form may show when it is saved
MaxShown == 4

\* selectOptions: the option equal to `selected` carries the selected
\* attribute; without one the select shows its first option
SelectedOf(options, selected) ==
    IF selected \in Range(options) THEN selected ELSE options[1]

\* renderAllP1Proposals(version, proposal.pairs): the pair rows of the
\* edit form
renderAllP1Proposals(version, pairs) ==
    [k \in 1..Len(pairs) |->
        Pair(SelectedOf(ValuesOf(getEncryptionOptions(version)), pairs[k].enc),
             SelectedOf(IntegCommon, pairs[k].integ))]

\* the edit form opened on the proposal the Phase 1 save produced is saved
\* without a change: renderAllP1Proposals and renderDhCheckboxes from the
\* parsed proposal, then saveTunnel on the rendered controls
saveTunnelUnchanged ==
    /\ cpc = "parsed" /\ encoder = "saveTunnelPairs"
    /\ Len(parsed.pairs) <= MaxShown
    /\ LET pairs == renderAllP1Proposals(form.version, parsed.pairs)
           sel == CheckedIn(getDhGroups(form.version), Range(parsed.dh))
           dhGroups == IF sel = << >> THEN << "modp2048" >> ELSE sel
       IN  /\ form' = Form("phase1Form", form.version, pairs, sel)
           /\ wire' = Join(FanOut(pairs, dhGroups), ",")
    /\ encoder' = "saveTunnelPairs"
    /\ parsed' = NoParse
    /\ cpc' = "encoded"
    /\ UNCHANGED << statusVars, fwVars, saveVars >>

\* the PFS select of the Child SA form: 'Nessuno (No PFS)' with value ''
\* and then the PFS groups
PfsOptions == << "" >> \o PfsGroups

\* the Child SA edit form opened on the proposal the Child SA save produced
\* is saved without a change: renderChildSaForm renders one pair row from
\* selEnc[0] and selInteg[0] and the PFS select from selDh[0]; then the save
\* handler on the rendered controls
savePhase2Unchanged ==
    /\ cpc = "parsed" /\ encoder = "savePhase2"
    /\ LET pair == Pair(SelectedOf(ValuesOf(EncCommon), parsed.enc[1]),
                        SelectedOf(IntegCommon, parsed.integ[1]))
           pfsGroup == SelectedOf(PfsOptions, parsed.dh[1])
       IN  /\ form' = Form("childSaForm", "2", << pair >>, << pfsGroup >>)
           /\ wire' = Join(<< EspOf(pair, pfsGroup) >>, ",")
    /\ encoder' = "savePhase2"
    /\ parsed' = NoParse
    /\ cpc' = "encoded"
    /\ UNCHANGED << statusVars, fwVars, saveVars >>

dismissForm ==
    /\ cpc = "parsed"
    /\ form' = NoForm
    /\ encoder' = "none"
    /\ wire' = << >>
    /\ parsed' = NoParse
    /\ cpc' = "idle"
    /\ UNCHANGED << statusVars, fwVars, saveVars >>

\* the quantifiers range over what the open form can hold; no form is open
\* while the saved record is being shown
NextCodec ==
    \/ /\ cpc = "idle"
       /\ \E v \in {"1", "2"} : \E pair \in P1Pairs(v) :
              \E dh \in Range(getDhGroups(v)) : saveTunnel(v, pair, dh)
    \/ /\ cpc = "idle"
       /\ \E v \in {"1", "2"} : \E pairs \in SeqsOf(P1Pairs(v), 1, MaxPairs) :
              \E ticked \in TickedSets(getDhGroups(v), MaxDh) :
                  saveTunnelPairs(v, pairs, ticked)
    \/ /\ cpc = "idle"
       /\ \E e \in BackendEncryption \cup {""} :
              \E i \in BackendIntegrity \cup {""} :
                  \E d \in BackendDhGroups \cup {""} :
                      IPsecApp_saveTunnel(e, i, d)
    \/ /\ cpc = "idle"
       /\ \E pairs \in SeqsOf(P2Pairs, 1, MaxPairs) :
              \E pfsGroup \in Range(PfsGroups) \cup {""} :
                  savePhase2(pairs, pfsGroup)
    \/ /\ cpc = "idle"
       /\ \E p \in StoredProposals : showTunnelFormOn(p)
    \/ showTunnelForm
    \/ saveTunnelUnchanged
    \/ savePhase2Unchanged
    \/ dismissForm

\* the codec reads nothing of the session: one session is enough
InitCodec == Init /\ permManage

SpecCodec == InitCodec /\ [][NextCodec]_vars

\* ------------------------------------------------------------------------
\* Firewall of one Child SA: handlers
\* ------------------------------------------------------------------------
\* renderFirewallManagement: children fetched and cached, the tables of
\* the Child SA requested
renderFirewallManagement(mod) ==
    /\ fwModule = NoValue
    /\ fwModule' = mod
    /\ currentChildren' = ChildRecord(srvPolicy)
    /\ fwView' = "spinner"
    /\ shownPolicy' = NoPolicy(mod)
    /\ fwReqs' = {[loadChildFirewall(currentChildren', "mount") EXCEPT
                      !.fresh = TRUE]}
    /\ fwEv' = NoFwEvent
    /\ UNCHANGED << srvRules, srvPolicy, shownRows >>
    /\ UNCHANGED fwOps
    /\ UNCHANGED << statusVars, codecVars, saveVars >>

\* loadChildFirewall, rules received
RulesOk(r) ==
    /\ r \in fwReqs /\ r.kind = "rules"
    /\ fwView' = "loaded"
    /\ shownRows' = [d \in Directions |-> IdsOf(srvRules, d)]
    /\ shownPolicy' = RenderPolicy(fwModule, r.child)
    /\ fwReqs' = fwReqs \ {r}
    /\ fwEv' = FwEvent("render", r.cause)
    /\ UNCHANGED << fwModule, srvRules, srvPolicy, currentChildren >>
    /\ UNCHANGED fwOps
    /\ UNCHANGED << statusVars, codecVars, saveVars >>

\* loadChildFirewall, catch
RulesFail(r) ==
    /\ r \in fwReqs /\ r.kind = "rules"
    /\ fwView' = "error"
    /\ shownRows' = NoRows
    /\ shownPolicy' = NoPolicy(fwModule)
    /\ fwReqs' = fwReqs \ {r}
    /\ fwEv' = FwEvent("loadFail", r.cause)
    /\ UNCHANGED << fwModule, srvRules, srvPolicy, currentChildren >>
    /\ UNCHANGED fwOps
    /\ UNCHANGED << statusVars, codecVars, saveVars >>

\* refreshAndReloadChildFirewall, children received
ChildrenOk(r) ==
    /\ r \in fwReqs /\ r.kind = "children"
    /\ currentChildren' = ChildRecord(srvPolicy)
    /\ fwReqs' = Replace(r, [loadChildFirewall(currentChildren', r.cause)
                                EXCEPT !.fresh = TRUE])
    /\ fwEv' = FwEvent("refreshed", r.cause)
    /\ UNCHANGED << fwModule, srvRules, srvPolicy, shownRows, shownPolicy,
                    fwView >>
    /\ UNCHANGED fwOps
    /\ UNCHANGED << statusVars, codecVars, saveVars >>

\* refreshAndReloadChildFirewall, catch: falls back to the cached record
ChildrenFail(r) ==
    /\ r \in fwReqs /\ r.kind = "children"
    /\ fwReqs' = Replace(r, loadChildFirewall(currentChildren, r.cause))
    /\ fwEv' = FwEvent("refreshFail", r.cause)
    /\ UNCHANGED << fwModule, srvRules, srvPolicy, currentChildren, shownRows,
                    shownPolicy, fwView >>
    /\ UNCHANGED fwOps
    /\ UNCHANGED << statusVars, codecVars, saveVars >>

\* the server assigns the next contiguous priority to a created rule
NextOrder(rules) == Cardinality(rules)

\* priorities stay dense (0..N-1) when a rule is deleted
Compact(rules) ==
    LET l == ListRules(rules)
    IN  {[l[k] EXCEPT !.order = k - 1] : k \in 1..Len(l)}

PendingCreates == {r \in fwReqs : r.kind = "saveRule" /\ r.rule = 0}

\* saveRule up to its await: POST when the modal holds no rule id, else PATCH
saveRule(id) ==
    /\ UserCanAct
    /\ IF id = 0
       THEN Cardinality(srvRules) + Cardinality(PendingCreates) < MaxRules
       ELSE \E d \in Directions : \E k \in 1..Len(shownRows[d]) :
                shownRows[d][k] = id
    /\ fwReqs' = Send(fwReqs,
                       [FwReq(1, "saveRule", "user") EXCEPT !.rule = id])
    /\ fwEv' = FwEvent("saveRule", "user")
    /\ UNCHANGED << fwModule, srvRules, srvPolicy, currentChildren, shownRows,
                    shownPolicy, fwView >>
    /\ fwOps' = fwOps + 1
    /\ UNCHANGED << statusVars, codecVars, saveVars >>

\* saveRule, request accepted: the tables are loaded again
SaveRuleOk(r) ==
    /\ r \in fwReqs /\ r.kind = "saveRule"
    /\ IF r.rule = 0
       THEN /\ Cardinality(srvRules) < MaxRules
            /\ LET ids == {x.id : x \in srvRules}
                   id == CHOOSE i \in RuleIds \ ids :
                             \A j \in RuleIds \ ids : i <= j
               IN  srvRules' = srvRules \cup {Rule(id, NextOrder(srvRules))}
       ELSE /\ \E x \in srvRules : x.id = r.rule
            /\ srvRules' = srvRules
    /\ fwReqs' = Replace(r, reloadAfter("mutation"))
    /\ fwEv' = FwEvent("mutOk", r.cause)
    /\ UNCHANGED << fwModule, srvPolicy, currentChildren, shownRows,
                    shownPolicy, fwView >>
    /\ UNCHANGED fwOps
    /\ UNCHANGED << statusVars, codecVars, saveVars >>

\* saveRule, catch: a toast
SaveRuleFail(r) ==
    /\ r \in fwReqs /\ r.kind = "saveRule"
    /\ fwReqs' = fwReqs \ {r}
    /\ fwEv' = FwEvent("mutFail", r.cause)
    /\ UNCHANGED << fwModule, srvRules, srvPolicy, currentChildren, shownRows,
                    shownPolicy, fwView >>
    /\ UNCHANGED fwOps
    /\ UNCHANGED << statusVars, codecVars, saveVars >>

\* deleteRule up to its await (the confirmation was given)
deleteRule(id) ==
    /\ UserCanAct
    /\ \E d \in Directions : \E k \in 1..Len(shownRows[d]) :
           shownRows[d][k] = id
    /\ fwReqs' = Send(fwReqs,
                       [FwReq(1, "deleteRule", "user") EXCEPT !.rule = id])
    /\ fwEv' = FwEvent("deleteRule", "user")
    /\ UNCHANGED << fwModule, srvRules, srvPolicy, currentChildren, shownRows,
                    shownPolicy, fwView >>
    /\ fwOps' = fwOps + 1
    /\ UNCHANGED << statusVars, codecVars, saveVars >>

DeleteRuleOk(r) ==
    /\ r \in fwReqs /\ r.kind = "deleteRule"
    /\ \E x \in srvRules : x.id = r.rule
    /\ srvRules' = Compact({x \in srvRules : x.id # r.rule})
    /\ fwReqs' = Replace(r, reloadAfter("mutation"))
    /\ fwEv' = FwEvent("mutOk", r.cause)
    /\ UNCHANGED << fwModule, srvPolicy, currentChildren, shownRows,
                    shownPolicy, fwView >>
    /\ UNCHANGED fwOps
    /\ UNCHANGED << statusVars, codecVars, saveVars >>

DeleteRuleFail(r) ==
    /\ r \in fwReqs /\ r.kind = "deleteRule"
    /\ fwReqs' = fwReqs \ {r}
    /\ fwEv' = FwEvent("mutFail", r.cause)
    /\ UNCHANGED << fwModule, srvRules, srvPolicy, currentChildren, shownRows,
                    shownPolicy, fwView >>
    /\ UNCHANGED fwOps
    /\ UNCHANGED << statusVars, codecVars, saveVars >>

Perms(rows) ==
    {p \in [1..Len(rows) -> {rows[k] : k \in 1..Len(rows)}] :
        \A a, b \in 1..Len(rows) : a # b => p[a] # p[b]}

\* rows.map((row, index) => ({ id: row.dataset.ruleId, order: index })),
\* with the order counted from one
rulesOrderFromOne(rows) ==
    [k \in 1..Len(rows) |-> [id |-> rows[k], order |-> k]]

\* rows.map((row, index) => ({ id: row.dataset.ruleId, order: index }))
rulesOrder(rows) ==
    [k \in 1..Len(rows) |-> [id |-> rows[k], order |-> k - 1]]

\* a drag in the table of direction d ends: Sortable has moved the rows and
\* onEnd calls reorderRules, which runs up to its await
reorderRules(d, dragged) ==
    /\ UserCanAct
    /\ Len(shownRows[d]) > 0
    /\ dragged \in Perms(shownRows[d])
    /\ shownRows' = [shownRows EXCEPT ![d] = dragged]
    /\ fwReqs' = Send(fwReqs,
                       [FwReq(1, "order", "user") EXCEPT
                           !.dir = d, !.rows = rulesOrder(dragged)])
    /\ fwEv' = FwEvent("drag", "user")
    /\ UNCHANGED << fwModule, srvRules, srvPolicy, currentChildren,
                    shownPolicy, fwView >>
    /\ fwOps' = fwOps + 1
    /\ UNCHANGED << statusVars, codecVars, saveVars >>

\* PUT .../firewall/rules/order with the full id sequence of a direction:
\* each listed rule takes the order submitted for it
ApplyOrder(rules, payload) ==
    {IF \E k \in 1..Len(payload) : payload[k].id = x.id
     THEN [x EXCEPT !.order =
              payload[CHOOSE k \in 1..Len(payload) : payload[k].id = x.id].order]
     ELSE x : x \in rules}

FullSequence(rules, d, payload) ==
    {payload[k].id : k \in 1..Len(payload)}
        = {x.id : x \in {y \in rules : InDirection(y, d)}}

\* reorderRules, request accepted: a toast
OrderOk(r) ==
    /\ r \in fwReqs /\ r.kind = "order"
    /\ FullSequence(srvRules, r.dir, r.rows)
    /\ srvRules' = ApplyOrder(srvRules, r.rows)
    /\ fwReqs' = fwReqs \ {r}
    /\ fwEv' = FwEvent("orderOk", r.cause)
    /\ UNCHANGED << fwModule, srvPolicy, currentChildren, shownRows,
                    shownPolicy, fwView >>
    /\ UNCHANGED fwOps
    /\ UNCHANGED << statusVars, codecVars, saveVars >>

\* reorderRules, catch, with the toast alone
reorderFailedToastOnly(r) == fwReqs \ {r}

\* reorderRules, catch: a toast, then the tables are loaded again
reorderFailed(r) == Replace(r, reloadAfter("reorderFail"))

OrderFail(r) ==
    /\ r \in fwReqs /\ r.kind = "order"
    /\ fwReqs' = reorderFailed(r)
    /\ fwEv' = FwEvent("orderFail", r.cause)
    /\ UNCHANGED << fwModule, srvRules, srvPolicy, currentChildren, shownRows,
                    shownPolicy, fwView >>
    /\ UNCHANGED fwOps
    /\ UNCHANGED << statusVars, codecVars, saveVars >>

\* body of the policy request: { policy_out }, { policy_in } or { policy }
PolicyKey(mod, ctl) ==
    IF mod = "firewallManagement" THEN "policy"
    ELSE IF ctl = "out" THEN "policy_out" ELSE "policy_in"

\* the user flips the policy control ctl; onchange calls togglePolicy, which
\* runs up to its await
togglePolicy(ctl) ==
    /\ UserCanAct
    /\ ctl \in Controls(fwModule)
    /\ LET new == IF shownPolicy[ctl] = "ACCEPT" THEN "DROP" ELSE "ACCEPT"
           q == [FwReq(1, "policy", "user") EXCEPT
                    !.dir = ctl, !.val = new, !.prev = shownPolicy[ctl],
                    !.key = PolicyKey(fwModule, ctl)]
       IN  /\ shownPolicy' = [shownPolicy EXCEPT ![ctl] = new]
           /\ fwReqs' = Send(fwReqs, q)
           /\ fwEv' = FwEvent("toggle", "user")
    /\ UNCHANGED << fwModule, srvRules, srvPolicy, currentChildren, shownRows,
                    fwView >>
    /\ fwOps' = fwOps + 1
    /\ UNCHANGED << statusVars, codecVars, saveVars >>

\* PATCH .../firewall/policy, body { policy_in?, policy_out? }
ApplyPolicy(policy, key, val) ==
    [d \in Directions |->
        IF key = "policy_" \o d THEN val ELSE policy[d]]

\* togglePolicy, request accepted: a toast (and the label of the checkbox)
PolicyOk(r) ==
    /\ r \in fwReqs /\ r.kind = "policy"
    /\ srvPolicy' = ApplyPolicy(srvPolicy, r.key, r.val)
    /\ fwReqs' = fwReqs \ {r}
    /\ fwEv' = FwEvent("toggleOk", r.cause)
    /\ UNCHANGED << fwModule, srvRules, currentChildren, shownRows,
                    shownPolicy, fwView >>
    /\ UNCHANGED fwOps
    /\ UNCHANGED << statusVars, codecVars, saveVars >>

\* togglePolicy, catch: a toast, and the control is put back
PolicyFail(r) ==
    /\ r \in fwReqs /\ r.kind = "policy"
    /\ shownPolicy' = IF fwView = "loaded"
                      THEN [shownPolicy EXCEPT ![r.dir] = Opposite(r.val)]
                      ELSE shownPolicy
    /\ fwReqs' = fwReqs \ {r}
    /\ fwEv' = FwEvent("toggleFail", r.cause)
    /\ UNCHANGED << fwModule, srvRules, srvPolicy, currentChildren, shownRows,
                    fwView >>
    /\ UNCHANGED fwOps
    /\ UNCHANGED << statusVars, codecVars, saveVars >>

NextFw ==
    \/ \E mod \in FwModules : renderFirewallManagement(mod)
    \/ \E r \in fwReqs : RulesOk(r)
    \/ \E r \in fwReqs : RulesFail(r)
    \/ \E r \in fwReqs : ChildrenOk(r)
    \/ \E r \in fwReqs : ChildrenFail(r)
    \/ \E id \in {0} \cup RuleIds : saveRule(id)
    \/ \E r \in fwReqs : SaveRuleOk(r)
    \/ \E r \in fwReqs : SaveRuleFail(r)
    \/ \E id \in RuleIds : deleteRule(id)
    \/ \E r \in fwReqs : DeleteRuleOk(r)
    \/ \E r \in fwReqs : DeleteRuleFail(r)
    \/ \E d \in Directions : \E dragged \in Perms(shownRows[d]) :
           reorderRules(d, dragged)
    \/ \E r \in fwReqs : OrderOk(r)
    \/ \E r \in fwReqs : OrderFail(r)
    \/ \E ctl \in Directions \cup {"default"} : togglePolicy(ctl)
    \/ \E r \in fwReqs : PolicyOk(r)
    \/ \E r \in fwReqs : PolicyFail(r)

\* the firewall reads nothing of the session: one session is enough
InitFirewall == Init /\ permManage

SpecFw == InitFirewall /\ [][NextFw]_vars

\* ------------------------------------------------------------------------
\* Tunnel and Child SA forms: validation and save handlers
\* ------------------------------------------------------------------------
\* the most octets a subnet text has
MaxOctets == 5

\* runs of digits a subnet text is made of
NumAtoms == {"0", "10", "32", "33", "032", "255", "256", "0001"}

Digits(a) ==
    CASE a \in {"0"} -> 1
      [] a \in {"10", "32", "33"} -> 2
      [] a \in {"032", "255", "256"} -> 3
      [] OTHER -> 4

Value(a) ==
    CASE a \in {"0"} -> 0
      [] a \in {"0001"} -> 1
      [] a \in {"10"} -> 10
      [] a \in {"32", "032"} -> 32
      [] a \in {"33"} -> 33
      [] a \in {"255"} -> 255
      [] OTHER -> 256

\* /^(\d{1,3})\.(\d{1,3})\.(\d{1,3})\.(\d{1,3})$/ against the first 7 atoms
MatchesQuad(value) ==
    /\ Len(value) >= 7
    /\ \A k \in {1, 3, 5, 7} : value[k] \in NumAtoms /\ Digits(value[k]) <= 3
    /\ \A k \in {2, 4, 6} : value[k] = "."

ipRegex(value) == Len(value) = 7 /\ MatchesQuad(value)

\* /^(\d{1,3})\.(\d{1,3})\.(\d{1,3})\.(\d{1,3})\/(\d{1,2})$/
cidrRegex(value) ==
    /\ Len(value) = 9 /\ MatchesQuad(value)
    /\ value[8] = "/"
    /\ value[9] \in NumAtoms /\ Digits(value[9]) <= 2

OctetsInRange(value) == \A k \in {1, 3, 5, 7} : Value(value[k]) <= 255

isValidCidr(value) ==
    IF value = << >> THEN FALSE
    ELSE IF ~cidrRegex(value)
         THEN IF ipRegex(value) THEN OctetsInRange(value) ELSE FALSE
         ELSE OctetsInRange(value) /\ Value(value[9]) <= 32

Dotted(n, last) ==
    LET F[k \in 1..n] ==
            IF k = 1 THEN << (IF n = 1 THEN last ELSE "10") >>
            ELSE F[k - 1] \o << ".", (IF k = n THEN last ELSE "10") >>
    IN  F[n]

\* texts the user types into a subnet field
SubnetTexts ==
    LET quads == {Dotted(n, last) : n \in 3..MaxOctets,
                                    last \in {"0", "255", "256", "0001"}}
        prefixes == {<< >>, << "/" >>} \cup
                    {<< "/", p >> : p \in {"0", "32", "33", "032"}}
    IN  {q \o x : q \in quads, x \in prefixes}
            \cup {<< >>, << " " >>, << "x" >>,
                  << " " >> \o Dotted(4, "0") \o << "/", "10" >>}

\* texts the user types into a name field and into a gateway field
NameTexts == {<< >>, << " " >>, << "n" >>, << " ", "n", " " >>, << "!" >>}

GatewayTexts == {<< >>, << " " >>, << "g" >>}

\* what the user does with the PSK field: nothing, clears it, types a secret
PskTyped == {NoValue, "", "new"}

NoRecord == [exists |-> FALSE, psk |-> ""]

\* tunnel records a form is opened with (psk as the record carries it)
TunnelRecords ==
    {NoRecord} \cup {[exists |-> TRUE, psk |-> x] : x \in {"", "old"}}

\* value of the PSK input when the save handler reads it
PskValue == IF sform.typed = NoValue THEN sform.prefill ELSE sform.typed

\* required: the constraint validation of the browser lets the submit
\* event through only for a non-empty value
Required(value) == value # << >>

\* pattern="[a-zA-Z0-9_-]+"
NamePattern(value) ==
    value # << >> /\ \A k \in 1..Len(value) : value[k] = "n"

\* renderChildSaForm / setupChildSaFormEvents: the inline Phase 2 form
showChildSaForm ==
    /\ spc = "idle"
    /\ sform' = [NoSaveForm EXCEPT !.kind = "childSaForm"]
    /\ ssent' = NoReq
    /\ spc' = "open"
    /\ UNCHANGED << statusVars, codecVars, fwVars >>

\* IPsecApp.showChildSaForm
IPsecApp_showChildSaForm ==
    /\ spc = "idle"
    /\ sform' = [NoSaveForm EXCEPT !.kind = "IPsecApp.child"]
    /\ ssent' = NoReq
    /\ spc' = "open"
    /\ UNCHANGED << statusVars, codecVars, fwVars >>

\* showTunnelForm(tunnel, onSave): the PSK input has no value attribute
openTunnelForm(rec) ==
    /\ spc = "idle"
    /\ sform' = [NoSaveForm EXCEPT !.kind = "tunnelForm",
                                   !.isEdit = rec.exists,
                                   !.prefill = ""]
    /\ ssent' = NoReq
    /\ spc' = "open"
    /\ UNCHANGED << statusVars, codecVars, fwVars >>

\* IPsecApp.showTunnelForm(tunnel): value="${tunnel?.psk || ''}"
IPsecApp_showTunnelForm(rec) ==
    /\ spc = "idle"
    /\ sform' = [NoSaveForm EXCEPT !.kind = "IPsecApp.tunnel",
                                   !.isEdit = rec.exists,
                                   !.prefill = rec.psk]
    /\ ssent' = NoReq
    /\ spc' = "open"
    /\ UNCHANGED << statusVars, codecVars, fwVars >>

\* click on .btn-save-phase2
savePhase2Click(nameIn, localIn, remoteIn) ==
    /\ spc = "open" /\ sform.kind = "childSaForm"
    /\ sform' = [sform EXCEPT !.name = nameIn, !.local_ts = localIn,
                              !.remote_ts = remoteIn]
    /\ LET name == Trim(nameIn)
           localTs == Trim(localIn)
           remoteTs == Trim(remoteIn)
       IN  ssent' =
               IF name = << >> \/ localTs = << >> \/ remoteTs = << >>
               THEN NoReq
               ELSE IF ~isValidCidr(localTs) THEN NoReq
               ELSE IF ~isValidCidr(remoteTs) THEN NoReq
               ELSE [NoReq EXCEPT !.op = "saveChild", !.name = name,
                                  !.local_ts = localTs,
                                  !.remote_ts = remoteTs]
    /\ spc' = "done"
    /\ UNCHANGED << statusVars, codecVars, fwVars >>

\* submit of #child-sa-form: IPsecApp.saveChildSa
IPsecApp_saveChildSa(nameIn, localIn, remoteIn) ==
    /\ spc = "open" /\ sform.kind = "IPsecApp.child"
    /\ NamePattern(nameIn) /\ Required(localIn) /\ Required(remoteIn)
    /\ sform' = [sform EXCEPT !.name = nameIn, !.local_ts = localIn,
                              !.remote_ts = remoteIn]
    /\ ssent' = [NoReq EXCEPT !.op = "saveChild", !.name = nameIn,
                              !.local_ts = localIn, !.remote_ts = remoteIn]
    /\ spc' = "done"
    /\ UNCHANGED << statusVars, codecVars, fwVars >>

\* click on #btn-save-tunnel: saveTunnel
saveTunnelClick(nameIn, remoteIn, typed) ==
    /\ spc = "open" /\ sform.kind = "tunnelForm"
    /\ sform' = [sform EXCEPT !.name = nameIn, !.remote_address = remoteIn,
                              !.typed = typed]
    /\ LET name == Trim(nameIn)
           remoteAddress == Trim(remoteIn)
           psk == IF typed = NoValue THEN sform.prefill ELSE typed
       IN  ssent' =
               IF name = << >> THEN NoReq
               ELSE IF remoteAddress = << >> THEN NoReq
               ELSE IF ~sform.isEdit /\ psk = "" THEN NoReq
               ELSE [NoReq EXCEPT
                        !.op = IF sform.isEdit THEN "updateTunnel"
                               ELSE "createTunnel",
                        !.name = name, !.remote_address = remoteAddress,
                        !.hasPsk = (psk # ""), !.psk = psk]
    /\ spc' = "done"
    /\ UNCHANGED << statusVars, codecVars, fwVars >>

\* submit of #tunnel-form: IPsecApp.saveTunnel
IPsecApp_saveTunnelSubmit(nameIn, remoteIn, typed) ==
    /\ spc = "open" /\ sform.kind = "IPsecApp.tunnel"
    /\ LET psk == IF typed = NoValue THEN sform.prefill ELSE typed
       IN  /\ NamePattern(nameIn) /\ Required(remoteIn)
           /\ sform.isEdit \/ psk # ""
           /\ ssent' = [NoReq EXCEPT
                           !.op = IF sform.isEdit THEN "updateTunnel"
                                  ELSE "createTunnel",
                           !.name = nameIn, !.remote_address = remoteIn,
                           !.hasPsk = ~(sform.isEdit /\ psk = ""),
                           !.psk = psk]
    /\ sform' = [sform EXCEPT !.name = nameIn, !.remote_address = remoteIn,
                              !.typed = typed]
    /\ spc' = "done"
    /\ UNCHANGED << statusVars, codecVars, fwVars >>

\* the form is closed
closeForm ==
    /\ spc = "done"
    /\ sform' = NoSaveForm
    /\ ssent' = NoReq
    /\ spc' = "idle"
    /\ UNCHANGED << statusVars, codecVars, fwVars >>

NextSave ==
    \/ showChildSaForm
    \/ IPsecApp_showChildSaForm
    \/ \E rec \in TunnelRecords : openTunnelForm(rec)
    \/ \E rec \in TunnelRecords : IPsecApp_showTunnelForm(rec)
    \/ /\ spc = "open" /\ sform.kind = "childSaForm"
       /\ \E nameIn \in NameTexts : \E localIn, remoteIn \in SubnetTexts :
              savePhase2Click(nameIn, localIn, remoteIn)
    \/ /\ spc = "open" /\ sform.kind = "IPsecApp.child"
       /\ \E nameIn \in NameTexts : \E localIn, remoteIn \in SubnetTexts :
              IPsecApp_saveChildSa(nameIn, localIn, remoteIn)
    \/ /\ spc = "open" /\ sform.kind = "tunnelForm"
       /\ \E nameIn \in NameTexts : \E remoteIn \in GatewayTexts :
              \E typed \in PskTyped : saveTunnelClick(nameIn, remoteIn, typed)
    \/ /\ spc = "open" /\ sform.kind = "IPsecApp.tunnel"
       /\ \E nameIn \in NameTexts : \E remoteIn \in GatewayTexts :
              \E typed \in PskTyped :
                  IPsecApp_saveTunnelSubmit(nameIn, remoteIn, typed)
    \/ closeForm

\* the forms read nothing of the session: one session is enough
InitForms == Init /\ permManage

SpecSave == InitForms /\ [][NextSave]_vars

\* ------------------------------------------------------------------------
\* Status reconciler: properties
\* ------------------------------------------------------------------------
\* a status snapshot was applied by the handler that just ran
Applied == ev.kind = "ok"

\* the configured children whose indicator is in the document
Shown == { i \in 1..Len(children) : children[i].name \in DOMAIN dom.dots }

TitleOf(i) == dom.dots[children[i].name]

\* the live list holds a record with exactly this name in state INSTALLED
LiveInstalled(snap, n) ==
    \E x \in snap.child_sas : x.name = n /\ x.state = "INSTALLED"

\* C1: after every applied snapshot, by updateStatusUI on the first
\* observation or by the interval callback, tunnel.status is 'established'
\* iff ike_state is exactly 'ESTABLISHED', 'connecting' iff it is exactly
\* 'CONNECTING', and 'disconnected' for every other value, absent included.
C1_StatusMapping ==
    Applied =>
        /\ tunnel.status = "established" <=> ev.snap.ike_state = "ESTABLISHED"
        /\ tunnel.status = "connecting" <=> ev.snap.ike_state = "CONNECTING"
        /\ tunnel.status = "disconnected"
              <=> ev.snap.ike_state \notin {"ESTABLISHED", "CONNECTING"}

\* C1 witness: a periodic poll whose snapshot has no ike_state was applied
\* and tunnel.status became 'disconnected'.
C1_Witness ==
    /\ Applied /\ ~ev.initial
    /\ ev.snap.ike_state = NoValue
    /\ tunnel.status = "disconnected"

\* C2: after every applied snapshot that does not map to 'established',
\* every configured child shows 'Waiting for Tunnel' if enabled and
\* 'Disabled' if not (the Italian initial label counts as 'Disabled').
C2_TunnelDownOverrides ==
    (Applied /\ ~reloading /\ ev.snap.ike_state # "ESTABLISHED") =>
        \A i \in Shown :
            IF children[i].enabled
            THEN TitleOf(i) = "Waiting for Tunnel"
            ELSE TitleOf(i) \in {"Disabled", "Disabilitato"}

\* C3: after every applied snapshot that maps to 'established', an enabled
\* child shows 'UP' iff the live list holds its exact name as INSTALLED and
\* 'Negotiating / Failed' otherwise.
C3_EnabledChildUp ==
    (Applied /\ ~reloading /\ ev.snap.ike_state = "ESTABLISHED") =>
        \A i \in Shown :
            children[i].enabled =>
                IF LiveInstalled(ev.snap, children[i].name)
                THEN TitleOf(i) = "UP (Installed)"
                ELSE TitleOf(i) = "Negotiating / Failed"

\* C4: after every applied snapshot that maps to 'established', a child
\* whose enabled flag is false shows 'Disabled' whatever the live list holds.
C4_DisabledChild ==
    (Applied /\ ~reloading /\ ev.snap.ike_state = "ESTABLISHED") =>
        \A i \in Shown :
            ~children[i].enabled =>
                TitleOf(i) \in {"Disabled", "Disabilitato"}

\* C5: a periodic status request is only ever issued for the view the
\* route shows, and a tick of the timer of a torn-down view leaves that
\* timer stopped.
C5_PollingStopsWithView ==
    [][ /\ \A r \in inflight' \ inflight : ~r.initial => r.mount = cur'
        /\ (ev'.kind = "tick" /\ ev'.mount # cur') => ev'.mount \notin timers'
      ]_vars

\* C6: a failed status fetch changes neither tunnel.status nor the
\* document, starts no reload and stops no timer, and the next tick of the
\* view on display issues a new fetch.
C6_FailedPollHarmless ==
    [][ /\ ev'.kind = "fail" =>
              /\ tunnel' = tunnel /\ dom' = dom /\ reloading' = reloading
              /\ timers \subseteq timers'
        /\ ( /\ ev.kind = "fail" /\ ev'.kind = "tick"
             /\ ev'.mount = ev.mount /\ cur = ev.mount
             /\ dom.view = "detail" )
           => nextSeq' = nextSeq + 1
      ]_vars

\* C7: periodic snapshots are applied in the order in which their requests
\* were issued.
C7_NoStaleSnapshot ==
    [][ (ev'.kind = "ok" /\ ~ev'.initial) => lastApplied' > lastApplied ]_vars

\* C8: a status response handled after the route left the view that
\* requested it changes neither the tunnel object nor the document and
\* starts no reload.
C8_LateResponseWritesNothing ==
    [][ (ev'.kind = "ok" /\ ev'.mount # cur) =>
            (tunnel' = tunnel /\ dom' = dom /\ ~reloading')
      ]_vars

\* ------------------------------------------------------------------------
\* Proposal codec: properties
\* ------------------------------------------------------------------------
\* the ','-separated segments of the submitted string, each as its parts
SegmentsOf(str) ==
    LET segs == Split(str, ",")
    IN  [k \in 1..Len(segs) |-> Split(segs[k], "-")]

\* the encryption identifier is flagged aead in the vocabulary table
FlaggedAead(e) ==
    \E k \in 1..Len(EncCommon \o EncIkev2Only) :
        LET o == (EncCommon \o EncIkev2Only)[k] IN o.value = e /\ o.aead

HasIntegrity(parts) ==
    \E k \in 1..Len(parts) : Len(parts[k]) = 1 /\ parts[k][1] \in Range(AllInteg)

\* C9: in every string a save handler submits, a segment holds an integrity
\* token iff the encryption identifier it starts with is not flagged AEAD;
\* an AEAD segment is the encryption and the DH group only.
C9_AeadSuppression ==
    cpc = "encoded" =>
        \A k \in 1..Len(SegmentsOf(wire)) :
            LET parts == SegmentsOf(wire)[k]
            IN  /\ HasIntegrity(parts) <=> ~FlaggedAead(parts[1][1])
                /\ FlaggedAead(parts[1][1]) => Len(parts) = 2

\* C10: for every non-AEAD encryption, every integrity and every DH group
\* of the vocabulary, parseProposal(buildProposal(enc, integ, dh)) has enc
\* in its enc list, integ in its integ list and dh in its dh list.
C10_RoundTrip ==
    (cpc = "parsed" /\ encoder = "saveTunnel"
        /\ ~FlaggedAead(form.pairs[1].enc)) =>
        /\ form.pairs[1].enc \in Range(parsed.enc)
        /\ form.pairs[1].integ \in Range(parsed.integ)
        /\ form.dhGroups[1] \in Range(parsed.dh)

\* C10 witness: an IKEv1-only group with legacy algorithms went through
\* buildProposal and parseProposal and came back.
C10_Witness ==
    /\ cpc = "parsed" /\ encoder = "saveTunnel"
    /\ form.pairs = << Pair("3des", "sha1") >>
    /\ form.dhGroups = << "modp768" >>
    /\ wire = << "3des", "-", "sha1", "-", "modp768" >>
    /\ parsed.enc = << "3des" >>
    /\ parsed.integ = << "sha1" >>
    /\ parsed.dh = << "modp768" >>

\* the DH groups the Phase 1 save encodes: the ticked ones, in table order
EncodedDh == IF form.dhGroups = << >> THEN << "modp2048" >> ELSE form.dhGroups

\* the text of one segment: the pair with one DH group, the integrity
\* token left out for an AEAD cipher
SegmentText(pair, dh) ==
    IF FlaggedAead(pair.enc) THEN << pair.enc, "-", dh >>
    ELSE << pair.enc, "-", pair.integ, "-", dh >>

\* C11: the Phase 1 save of pairs P0..Pn and DH groups D0..Dm submits the
\* segments P0-D0, ..., P0-Dm, P1-D0, ..., Pn-D0 in this order, (m+1)+n
\* segments joined by commas.
C11_FanOutOrder ==
    (cpc = "encoded" /\ encoder = "saveTunnelPairs") =>
        LET segs == Split(wire, ",")
            m1 == Len(EncodedDh)
        IN  /\ Len(segs) = m1 + (Len(form.pairs) - 1)
            /\ \A k \in 1..Len(segs) :
                   segs[k] = IF k <= m1
                             THEN SegmentText(form.pairs[1], EncodedDh[k])
                             ELSE SegmentText(form.pairs[k - m1 + 1],
                                              EncodedDh[1])

\* C11 witness: two pairs and two DH groups were saved as three segments.
C11_Witness ==
    /\ cpc = "encoded" /\ encoder = "saveTunnelPairs"
    /\ form.pairs = << Pair("aes256", "sha256"), Pair("aes128", "sha256") >>
    /\ form.dhGroups = << "modp2048", "modp3072" >>
    /\ wire = << "aes256", "-", "sha256", "-", "modp2048", ",",
                 "aes256", "-", "sha256", "-", "modp3072", ",",
                 "aes128", "-", "sha256", "-", "modp2048" >>

\* every identifier of the vocabulary tables
Vocabulary ==
    Range(AllEnc) \cup Range(AllInteg) \cup Range(AllDh) \cup Range(PfsGroups)

\* C12: for undefined, for '' and for every string that holds no identifier
\* of the vocabulary, parseProposal returns the canonical default: enc
\* [aes256], integ [sha256], dh [modp2048] and the one pair {aes256, sha256}.
C12_DecoderDefaults ==
    (cpc = "parsed" /\ encoder \in {"stored", "new"}
        /\ \A k \in 1..Len(wire) : wire[k] \notin Vocabulary) =>
        parsed = [enc |-> << "aes256" >>, integ |-> << "sha256" >>,
                  dh |-> << "modp2048" >>,
                  pairs |-> << Pair("aes256", "sha256") >>]

\* ------------------------------------------------------------------------
\* Firewall: properties
\* ------------------------------------------------------------------------
\* the requests the handler that just ran has consumed
Handled(r) == r \in fwReqs /\ r \notin fwReqs'

Started(q) == q \in fwReqs' /\ q \notin fwReqs

RowIds(payload) == [k \in 1..Len(payload) |-> payload[k].id]

\* C13: after a successful reorder of direction d with the id sequence s,
\* the rules of d have the priorities 0..N-1 in the order of s, and every
\* rule of the other direction alone keeps its priority
C13_Reorder ==
    [][\A r \in fwReqs :
          (Handled(r) /\ r.kind = "order" /\ fwEv'.kind = "orderOk") =>
              LET s == RowIds(r.rows)
              IN  /\ IdsOf(srvRules', r.dir) = s
                  /\ \A k \in 1..Len(s) :
                         \E x \in srvRules' : x.id = s[k] /\ x.order = k - 1
                  /\ \A x \in srvRules :
                         ~InDirection(x, r.dir) => x \in srvRules']_vars

\* an accepted reorder of the outbound table to (2, 1) has been processed
C13_Witness ==
    /\ fwEv.kind = "orderOk"
    /\ Rule(2, 0) \in srvRules /\ Rule(1, 1) \in srvRules
    /\ Rule(3, 2) \in srvRules

\* C14: a rejected reorder starts a reload of the tables (through the
\* children refresh or directly, and also when the refresh fails), and when
\* the rules arrive both tables show the order the backend holds
C14_FailedReorder ==
    [][\A r \in fwReqs :
          Handled(r) =>
              /\ (r.kind = "order" /\ fwEv'.kind = "orderFail") =>
                     \E q \in fwReqs' :
                         /\ Started(q) /\ q.cause = "reorderFail"
                         /\ q.kind \in {"rules", "children"}
              /\ (r.kind = "children" /\ r.cause = "reorderFail") =>
                     \E q \in fwReqs' :
                         /\ Started(q) /\ q.cause = "reorderFail"
                         /\ q.kind = "rules"
              /\ (r.kind = "rules" /\ r.cause = "reorderFail"
                     /\ fwEv'.kind = "render") =>
                     \A d \in Directions :
                         shownRows'[d] = IdsOf(srvRules, d)]_vars

\* the one operation of the visit was a drag; it was rejected, the rules
\* were fetched again and the tables show the order of the backend
C14_Witness ==
    /\ fwEv = FwEvent("render", "reorderFail")
    /\ fwOps = 1
    /\ shownRows["out"] = << 1, 2 >>
    /\ srvRules = {Rule(1, 0), Rule(2, 1), Rule(3, 2)}

\* C15: togglePolicy for direction d requests a change of the policy of d
\* alone; when the request is rejected the control of d shows again what it
\* showed before the toggle and the other control is untouched; when it is
\* accepted the control of d shows the new value
C15_PolicyToggle ==
    [][/\ \A q \in fwReqs' :
              (Started(q) /\ q.kind = "policy") =>
                  q.dir \in Directions /\ q.key = "policy_" \o q.dir
       /\ \A r \in fwReqs :
              (Handled(r) /\ r.kind = "policy" /\ fwView = "loaded") =>
                  /\ fwEv'.kind = "toggleFail" =>
                         /\ shownPolicy'[r.dir] = r.prev
                         /\ \A c \in DOMAIN shownPolicy \ {r.dir} :
                                shownPolicy'[c] = shownPolicy[c]
                  /\ fwEv'.kind = "toggleOk" =>
                         shownPolicy'[r.dir] = r.val]_vars

\* C16: when the tables are rendered again after a rule create, update or
\* delete, or after a rejected reorder, the per-direction policy controls
\* are rendered from a child record read from the backend for this reload,
\* or at least show the policies the backend holds
C16_PolicyAfterMutation ==
    [][\A r \in fwReqs :
          (Handled(r) /\ r.kind = "rules" /\ fwEv'.kind = "render"
              /\ r.cause \in {"mutation", "reorderFail"}) =>
              \/ r.fresh
              \/ \A d \in Directions \cap DOMAIN shownPolicy' :
                     shownPolicy'[d] = srvPolicy[d]]_vars

\* C17: the user cannot start a firewall operation (rule save, rule delete,
\* reorder, policy toggle) while a request of the same operation is unanswered
C17_NoSecondRequest ==
    [][\A q \in fwReqs' :
          (Started(q) /\ q.cause = "user") =>
              ~\E r \in fwReqs : r.cause = "user" /\ r.kind = q.kind]_vars

\* ------------------------------------------------------------------------
\* Proposal codec: output of the encoders
\* ------------------------------------------------------------------------
\* the form supplied no DH group (none ticked, none selected)
NoDhSupplied == \A k \in 1..Len(form.dhGroups) : form.dhGroups[k] = ""

LastToken(parts) == parts[Len(parts)]

\* C20: a submitted proposal string is never empty; where the form supplies
\* no encryption, no integrity or no DH group, aes256, sha256 and modp2048
\* stand in their place
C20_NeverEmpty ==
    cpc = "encoded" =>
        /\ wire # << >>
        /\ \A k \in 1..Len(SegmentsOf(wire)) :
               LET parts == SegmentsOf(wire)[k]
               IN  /\ \A j \in 1..Len(parts) : parts[j] # << >>
                   /\ NoDhSupplied => LastToken(parts) = << "modp2048" >>
        /\ \A k \in 1..Len(form.pairs) :
               LET parts == SegmentsOf(wire)[k]
               IN  /\ form.pairs[k].enc = "" => parts[1] = << "aes256" >>
                   /\ form.pairs[k].integ = "" => parts[2] = << "sha256" >>

\* the strings the encoders submit are not empty and hold no empty token
NoEmptyToken ==
    cpc = "encoded" =>
        /\ wire # << >>
        /\ \A k \in 1..Len(SegmentsOf(wire)) :
               \A j \in 1..Len(SegmentsOf(wire)[k]) :
                   SegmentsOf(wire)[k][j] # << >>

\* ------------------------------------------------------------------------
\* Tunnel and Child SA forms: properties
\* ------------------------------------------------------------------------
\* a dotted quad with every octet in 0..255 and an optional /prefix in 0..32
ValidSubnet(value) ==
    /\ Len(value) \in {7, 9}
    /\ \A k \in {1, 3, 5, 7} : value[k] \in NumAtoms /\ Value(value[k]) <= 255
    /\ \A k \in {2, 4, 6} : value[k] = "."
    /\ Len(value) = 9 =>
           value[8] = "/" /\ value[9] \in NumAtoms /\ Value(value[9]) <= 32

ChildFieldsValid ==
    /\ ssent.name # << >>
    /\ ssent.local_ts # << >> /\ ssent.remote_ts # << >>
    /\ ValidSubnet(ssent.local_ts) /\ ValidSubnet(ssent.remote_ts)

TunnelFieldsValid ==
    /\ ssent.name # << >>
    /\ ssent.remote_address # << >>
    /\ ssent.op = "createTunnel" => ssent.hasPsk /\ ssent.psk # ""

\* C18: a Child SA save request carries a name and two valid subnets; a
\* tunnel save request carries a name, a remote gateway and, on create, a PSK
C18_ValidationFirst ==
    /\ ssent.op = "saveChild" => ChildFieldsValid
    /\ ssent.op \in {"createTunnel", "updateTunnel"} => TunnelFieldsValid

\* the same for the requests of every form but the IPsecApp Child SA modal
ValidationFirstInlineForms ==
    sform.kind # "IPsecApp.child" => C18_ValidationFirst

\* C19: an open tunnel form shows no secret of the record it was opened
\* with, and an update request carries a psk only if the user typed one
C19_PskWriteOnly ==
    /\ sform.kind \in {"tunnelForm", "IPsecApp.tunnel"} => sform.prefill = ""
    /\ (ssent.op = "updateTunnel" /\ ssent.hasPsk) =>
           sform.typed \notin {NoValue, ""} /\ ssent.psk = sform.typed

\* the same for the modal of showTunnelForm alone
PskWriteOnlyTunnelForm ==
    sform.kind = "tunnelForm" => C19_PskWriteOnly

\* ------------------------------------------------------------------------
\* Proposal codec: result of the decoder
\* ------------------------------------------------------------------------
\* C25: every value parseProposal returns in enc, integ, dh and pairs is a
\* member of the encryption, integrity or DH/ECP vocabulary respectively
C25_OnlyVocabulary ==
    cpc = "parsed" =>
        /\ Range(parsed.enc) \subseteq Range(AllEnc)
        /\ Range(parsed.integ) \subseteq Range(AllInteg)
        /\ Range(parsed.dh) \subseteq Range(AllDh) \cup Range(PfsGroups)
        /\ \A k \in 1..Len(parsed.pairs) :
               /\ parsed.pairs[k].enc \in Range(AllEnc)
               /\ parsed.pairs[k].integ \in Range(AllInteg)

\* the same for the strings that hold no 'md5'
OnlyVocabularyWithoutMd5 ==
    (\A k \in 1..Len(wire) : wire[k] # "md5") => C25_OnlyVocabulary

\* ------------------------------------------------------------------------
\* Status reconciler: polling and derived status
\* ------------------------------------------------------------------------
\* C24: after every applied snapshot each child indicator on display is the
\* one that snapshot alone determines, an absent child_sas list counting as
\* an empty one
C24_IndicatorsFromSnapshot ==
    (Applied /\ ~reloading) =>
        \A i \in Shown :
            TitleOf(i) = DotTitle(children[i], StatusOf(ev.snap.ike_state),
                                  ActiveChildren(ev.snap))

\* the same for the snapshots that carry a child_sas list
IndicatorsFromListedSnapshot ==
    ev.snap.has_child_sas => C24_IndicatorsFromSnapshot

\* ------------------------------------------------------------------------
\* Status reconciler: polling contract and origin of tunnel.status
\* ------------------------------------------------------------------------
\* the step is a tick of the timer of the view on display
TickOfShownView == ev'.kind = "tick" /\ ev'.mount = cur /\ dom.view = "detail"

\* the step mounts nothing: no view goes from its children fetch to its
\* immediate status fetch
IssuesInitial(m) ==
    /\ m \in 1..Len(mounts) /\ m \in 1..Len(mounts')
    /\ mounts[m].pc = "getChildren" /\ mounts'[m].pc = "initStatus"

\* C21: mounting the detail view issues exactly one immediate status fetch,
\* no timer of a view ticks before that fetch has been handled, and every
\* tick of the timer of the view on display issues one status fetch and
\* leaves the timer running, with or without the manage permission.
C21_PollingOnMount ==
    [][ /\ \A m \in 1..MaxMounts :
               IssuesInitial(m) =>
                   /\ inflight' \ inflight =
                          {[mount |-> m, seq |-> 0, initial |-> TRUE]}
                   /\ m \notin timers'
        /\ ev'.kind = "tick" =>
               \A r \in inflight : r.initial => r.mount # ev'.mount
        /\ TickOfShownView =>
               /\ Cardinality(inflight' \ inflight) = 1
               /\ ev'.mount \in timers'
      ]_vars

\* the same contract for sessions that hold the manage permission
PollingOnMountWithManage ==
    [][ permManage =>
          /\ \A m \in 1..MaxMounts :
                 IssuesInitial(m) =>
                     /\ inflight' \ inflight =
                            {[mount |-> m, seq |-> 0, initial |-> TRUE]}
                     /\ m \notin timers'
          /\ ev'.kind = "tick" =>
                 \A r \in inflight : r.initial => r.mount # ev'.mount
          /\ TickOfShownView =>
                 /\ Cardinality(inflight' \ inflight) = 1
                 /\ ev'.mount \in timers'
      ]_vars

\* the step is the handling of the loaded tunnel record of some view
LoadsTunnel ==
    \E m \in 1..Len(mounts) :
        /\ m \in 1..Len(mounts')
        /\ mounts[m].pc = "getTunnel" /\ mounts'[m].pc = "getChildren"

\* the step is the fresh page after location.reload()
Reloads == reloading /\ ~reloading'

\* C22: tunnel.status is 'disconnected' when the tunnel record has been
\* loaded, and afterwards only the handling of a received status snapshot
\* changes it, to the mapping of that snapshot.
C22_DerivedStatus ==
    [][ /\ LoadsTunnel => tunnel'.status = "disconnected"
        /\ (~LoadsTunnel /\ ~Reloads /\ tunnel'.status # tunnel.status) =>
               /\ ev'.kind = "ok"
               /\ tunnel'.status = StatusOf(ev'.snap.ike_state)
      ]_vars

\* apart from the loading of the tunnel record, only a status snapshot
\* changes tunnel.status
StatusChangedBySnapshotOnly ==
    [][ (~LoadsTunnel /\ ~Reloads /\ tunnel'.status # tunnel.status) =>
            ev'.kind = "ok"
      ]_vars

\* apart from the loading of the tunnel record, only a status snapshot or
\* a successful Start or Stop changes tunnel.status
StatusChangedBySnapshotOrControl ==
    [][ (~LoadsTunnel /\ ~Reloads /\ tunnel'.status # tunnel.status) =>
            \/ ev'.kind = "ok" /\ tunnel'.status = StatusOf(ev'.snap.ike_state)
            \/ ev'.kind = "control"
      ]_vars

\* ------------------------------------------------------------------------
\* Firewall rules of direction 'both'
\* ------------------------------------------------------------------------
OtherDirection(d) == IF d = "out" THEN "in" ELSE "out"

\* C23: a rule of direction 'both' is listed in the outbound and in the
\* inbound ordering, and an accepted reorder of one direction leaves the
\* ordering of the other direction as it was.
C23_BothRules ==
    [][ /\ \A x \in srvRules' :
               x.direction = "both" =>
                   \A d \in Directions :
                       \E k \in 1..Len(IdsOf(srvRules', d)) :
                           IdsOf(srvRules', d)[k] = x.id
        /\ \A r \in fwReqs :
               (Handled(r) /\ r.kind = "order" /\ fwEv'.kind = "orderOk") =>
                   IdsOf(srvRules', OtherDirection(r.dir))
                       = IdsOf(srvRules, OtherDirection(r.dir))
      ]_vars

\* a rule of direction 'both' is listed in both orderings
BothRulesListedTwice ==
    \A x \in srvRules :
        x.direction = "both" =>
            \A d \in Directions :
                \E k \in 1..Len(IdsOf(srvRules, d)) : IdsOf(srvRules, d)[k] = x.id

\* position of rule id in the listing of direction d (0 when not listed)
PositionIn(rules, d, id) ==
    LET l == IdsOf(rules, d)
    IN  IF \E k \in 1..Len(l) : l[k] = id
        THEN CHOOSE k \in 1..Len(l) : l[k] = id
        ELSE 0

\* both tables are filtered from one list: two rules of direction 'both'
\* stand in the same relative order in the two tables
BothRulesSameRelativeOrder ==
    \A a, b \in srvRules :
        (a.direction = "both" /\ b.direction = "both") =>
            ( PositionIn(srvRules, "out", a.id) < PositionIn(srvRules, "out", b.id)
              <=> PositionIn(srvRules, "in", a.id) < PositionIn(srvRules, "in", b.id) )

\* the backend holds rules 2 and 4 of direction 'both' in swapped order
\* after an accepted reorder of one table
SwappedBothRules ==
    /\ fwEv.kind = "orderOk"
    /\ PositionIn(srvRules, "out", 4) > 0
    /\ PositionIn(srvRules, "out", 4) < PositionIn(srvRules, "out", 2)

\* ------------------------------------------------------------------------
\* Proposal codec: classification of the decoded tokens
\* ------------------------------------------------------------------------
\* the non-empty trimmed ','-separated segments of the string, each as the
\* sequence of its non-empty '-'-separated tokens (a part that is not one
\* identifier is no token of any vocabulary and is written as NoValue)
TokensOf(str) ==
    LET segs == Split(str, ",")
        kept == NonEmpty([i \in 1..Len(segs) |-> Trim(segs[i])])
    IN  [s \in 1..Len(kept) |->
            LET parts == NonEmpty(Split(kept[s], "-"))
            IN  [k \in 1..Len(parts) |->
                    IF Len(parts[k]) = 1 THEN parts[k][1] ELSE NoValue]]

\* first token of the segment that belongs to the vocabulary, or the default
FirstOf(seg, vocabulary, default) ==
    IF \E k \in 1..Len(seg) : seg[k] \in vocabulary
    THEN seg[CHOOSE k \in 1..Len(seg) :
                 /\ seg[k] \in vocabulary
                 /\ \A j \in 1..(k - 1) : seg[j] \notin vocabulary]
    ELSE default

HoldsPairToken(seg) ==
    \E k \in 1..Len(seg) : seg[k] \in Range(AllEnc) \cup Range(AllInteg)

\* one pair per segment that holds an encryption or integrity token
PairsOf(segs) ==
    LET F[s \in 0..Len(segs)] ==
            IF s = 0 THEN << >>
            ELSE IF HoldsPairToken(segs[s])
                 THEN Append(F[s - 1],
                             [enc |-> FirstOf(segs[s], Range(AllEnc), "aes256"),
                              integ |-> FirstOf(segs[s], Range(AllInteg),
                                                "sha256")])
                 ELSE F[s - 1]
    IN  F[Len(segs)]

\* the tokens of all segments that belong to the vocabulary
UnionOf(segs, vocabulary) ==
    UNION { Range(segs[s]) : s \in 1..Len(segs) } \cap vocabulary

\* the result the classification of the tokens of `str` determines
Classified(str) ==
    LET segs == TokensOf(str)
        enc == UnionOf(segs, Range(AllEnc))
        integ == UnionOf(segs, Range(AllInteg))
        dh == UnionOf(segs, Range(AllDh))
        pairs == PairsOf(segs)
    IN  [enc |-> IF enc = {} THEN {"aes256"} ELSE enc,
         integ |-> IF integ = {} THEN {"sha256"} ELSE integ,
         dh |-> IF dh = {} THEN {"modp2048"} ELSE dh,
         pairs |-> IF pairs = << >>
                   THEN << [enc |-> "aes256", integ |-> "sha256"] >>
                   ELSE pairs]

\* C26: the decoder yields one pair per segment that holds an encryption
\* or integrity token of the vocabulary, made of the segment's first
\* encryption and first integrity token, in segment order; its enc, integ
\* and dh results are the unions of the tokens of all segments (the
\* defaults standing in for an empty result).
C26_Classification ==
    cpc = "parsed" =>
        LET c == Classified(wire)
        IN  /\ parsed.pairs = c.pairs
            /\ Range(parsed.enc) = c.enc
            /\ Range(parsed.integ) = c.integ
            /\ Range(parsed.dh) = c.dh

\* the same for strings without the token md5
ClassificationWithoutMd5 ==
    (\A k \in 1..Len(wire) : wire[k] # "md5") => C26_Classification

\* ------------------------------------------------------------------------
\* Proposal codec: edit cycles
\* ------------------------------------------------------------------------
\* the step saves the edit form of a tunnel without a change
ResavesTunnel ==
    cpc = "parsed" /\ encoder = "saveTunnelPairs" /\ cpc' = "encoded"

\* C28: saving the tunnel edit form without a change submits the
\* ike_proposal it was opened on, with as many pairs and segments as before.
C28_EditIdempotent ==
    [][ ResavesTunnel =>
            /\ wire' = wire
            /\ Len(form'.pairs) = Len(form.pairs)
            /\ Len(Split(wire', ",")) = Len(Split(wire, ","))
      ]_vars

\* the same for proposals saved with at most one DH group ticked
EditIdempotentOneDh ==
    [][ (ResavesTunnel /\ Len(form.dhGroups) <= 1) => wire' = wire ]_vars

\* the step saves the edit form of a Child SA without a change
ResavesChild ==
    cpc = "parsed" /\ encoder = "savePhase2" /\ cpc' = "encoded"

\* C29: saving the Child SA edit form without a change submits the same
\* encryption/integrity pairs in the same order and the same PFS choice.
C29_EspPreserved ==
    [][ ResavesChild =>
            /\ form'.pairs = form.pairs
            /\ form'.dhGroups = form.dhGroups
      ]_vars

\* the same for a single pair saved with a PFS group
EspPreservedOnePairWithPfs ==
    [][ (ResavesChild /\ Len(form.pairs) = 1 /\ form.dhGroups # << "" >>) =>
            /\ form'.pairs = form.pairs
            /\ form'.dhGroups = form.dhGroups
            /\ wire' = wire
      ]_vars

\* a child saved without a PFS group is given modp2048 by the unchanged edit
NoPfsBecomesModp2048 ==
    [][ (ResavesChild /\ form.dhGroups = << "" >>) =>
            form'.dhGroups = << "modp2048" >>
      ]_vars

\* the unchanged edit keeps the first stored pair and drops the others
OnlyFirstPairKept ==
    [][ ResavesChild => form'.pairs = << form.pairs[1] >> ]_vars

\* ------------------------------------------------------------------------
\* Firewall policy: overlapping toggles
\* ------------------------------------------------------------------------
\* the step handles the answer to r and leaves no policy toggle of r's
\* direction in flight
LastToggleAnswered(r) ==
    /\ Handled(r) /\ r.kind = "policy"
    /\ fwView = "loaded"
    /\ fwModule \in {"part_000", "childSaForm"}
    /\ \A q \in fwReqs' : q.kind = "policy" => q.dir # r.dir

\* C30: once every in-flight policy toggle of one direction has been
\* answered, the control of that direction shows the policy the backend
\* holds for it.
C30_TogglesConverge ==
    [][ \A r \in fwReqs :
            LastToggleAnswered(r) => shownPolicy'[r.dir] = srvPolicy'[r.dir]
      ]_vars

\* the same when the toggle is the only operation of the visit
ToggleAloneConverges ==
    [][ \A r \in fwReqs :
            (LastToggleAnswered(r) /\ fwOps = 1) =>
                shownPolicy'[r.dir] = srvPolicy'[r.dir]
      ]_vars

\* ------------------------------------------------------------------------
\* Status reconciler: page reloads on an unchanging backend
\* ------------------------------------------------------------------------
\* the step starts a full page reload
StartsReload == ~reloading /\ reloading'

\* C27: on a backend whose state does not change, the detail view starts
\* no page reload once it has been reloaded one time.
C27_NoReloadLoop ==
    [][ (held.reloads >= 1) => ~StartsReload ]_vars

\* the status field of the tunnel record is the mapping of the live state
RecordAgrees == held.status = StatusOf(held.snap.ike_state)

\* no reload is started when the record's status is the mapping of the
\* live state, or when the session lacks the manage permission
NoReloadWhenRecordAgrees ==
    [][ (RecordAgrees \/ ~permManage) => ~StartsReload ]_vars

====
